---------------------------- MODULE Spec2Model ----------------------------
(***************************************************************************)
(* Model of wscode-cli: the agent loop (Chat), the tool dispatch and the   *)
(* path confinement helper.                                                *)
(*                                                                         *)
(*   Spec      one Chat instance driven by a caller that awaits each       *)
(*             sendPrompt before its next call (sendPrompt, clearHistory,  *)
(*             endSession), with the LLM gateway and the filesystem as     *)
(*             the environment.                                            *)
(*   SpecPath  the pure function isWithinRoot applied to bounded inputs.   *)
(*   SpecRegistry  one ToolRegistry under any sequence of its operations.  *)
(*   SpecEdit  edit_file's occurrence check and replacement applied to     *)
(*             bounded file texts.                                         *)
(*   SpecTools, SpecReadFiles, SpecReadFile  execute of each tool applied  *)
(*             to bounded parameter objects, path lists and files.         *)
(*   SpecUI    the terminal UI around the App's one Chat.                  *)
(*   SpecHeap  the history arrays of two Chat instances and the arrays     *)
(*             getHistory returns.                                         *)
(*   SpecBaseRegistry  getBaseToolRegistry and the registry it returns.    *)
(*   SpecEditTargets   edit_file on every kind of target path.             *)
(*   SpecUILive        SpecUI with timers that fire.                       *)
(*   SpecGrep  grep on bounded lists of candidate files.                   *)
(*   SpecGlobWalk, SpecGlobMatch  glob's directory walk on bounded trees   *)
(*             and its pattern matching on bounded patterns and paths.     *)
(*   SpecOverlap  two sendPrompt invocations that overlap on one Chat.     *)
(*                                                                         *)
(* A path is a sequence of one-character strings, so that the prefix       *)
(* comparison of isWithinRoot is the comparison the code makes.            *)
(***************************************************************************)
EXTENDS Integers, Sequences, FiniteSets, TLC

VARIABLES
    history,        \* Chat.history
    currentTrace,   \* Chat.currentTrace is non-null
    sessionId,      \* Chat.sessionId (a fresh value per session)
    pc,             \* position of the one sendPrompt invocation
    pending,        \* tool calls of the current response still to process
    result,         \* value the last sendPrompt resolved with
    error,          \* error the last sendPrompt rejected with
    nextId,         \* next tool-call id the gateway hands out
    fsLog,          \* filesystem accesses made by the tools
    hist0,          \* history when the current invocation started
    curPrompt,      \* prompt of the current invocation
    responses,      \* gateway responses received by the current invocation
    executed,       \* ids of the tool calls whose tool.execute was invoked
    gwTotal,        \* gateway calls issued so far
    gwCalls,        \* gateway calls issued by the current invocation
    lastOp,         \* the operation that took the last step
    cwd,            \* process.cwd()
    pathArg,        \* isWithinRoot: dirpath
    rootArg,        \* isWithinRoot: rootDirectory
    withinResult,   \* isWithinRoot: returned value
    tools,          \* ToolRegistry.tools
    regOp,          \* the registry operation called last
    regArg,         \* its name argument (the tool's name for registerTool)
    regTool,        \* the tool instance passed to registerTool
    regReturn,      \* what it returned
    regError,       \* the error it threw
    fileText,       \* edit_file: the file's current text
    oldContent,     \* edit_file: params.old_content
    newContent,     \* edit_file: params.new_content
    editOutcome,    \* edit_file: how execute ended
    editCount,      \* edit_file: the N of "appears N times"
    fileAfter,      \* edit_file: the file's text afterwards
    editTarget,     \* edit_file: what params.file_path is
    toolName,       \* tool.execute: the tool
    toolParams,     \* tool.execute: params
    toolFsOk,       \* tool.execute: whether the path it touches exists
    toolOutcome,    \* tool.execute: what it returned or threw
    readPaths,      \* read_files: params.paths, each with what the path is
    readResult,     \* read_files: what execute returned or threw
    fileLines,      \* read_file: the lines of the file
    offsetArg,      \* read_file: params.offset
    limitArg,       \* read_file: params.limit
    readOutcome,    \* read_file: the lines returned and "Lines read"
    appState,       \* App: state ("welcome" or "chat")
    chatState,      \* ChatInterface: state of the mounted instance
    currentInput,   \* ChatInterface: currentInput of the mounted instance
    mount,          \* the ChatInterface instance mounted last
    inFlight,       \* pending chat.sendPrompt calls, each with its instance
    timers,         \* instances whose 5 s error timer is pending
    uiOp,           \* the UI event handled last
    heap,           \* the arrays, by reference
    historyRef,     \* Chat.history of each Chat: the array it refers to
    chatPc,         \* position of each Chat's sendPrompt
    returned,       \* arrays getHistory returned that the caller still holds
    heapOp,         \* the operation that took the last step
    grepFiles,      \* grep: the candidate files glob returned, in its order
    grepOutcome,    \* grep: what execute returned or threw
    globTree,       \* glob: the entries of the search root, in readdir order
    globOutcome,    \* glob: the entries the recursive search reported
    globPattern,    \* glob: params.pattern
    globRel,        \* glob: an entry's path relative to the search root
    globMatched,    \* glob: what matchesPattern returned for it
    sharedHistory,  \* overlap: Chat.history of the one instance
    invPc,          \* overlap: position of each sendPrompt invocation
    invAppended,    \* overlap: messages each invocation has appended
    invCalls,       \* overlap: gateway calls each invocation has issued
    invRequest      \* overlap: the messages of each invocation's last llmCall

chatVars == <<history, currentTrace, sessionId, pc, pending, result, error,
              nextId, fsLog, hist0, curPrompt, responses, executed, gwTotal,
              gwCalls, lastOp>>
pathVars == <<pathArg, rootArg, withinResult>>
regVars == <<tools, regOp, regArg, regTool, regReturn, regError>>
editVars == <<fileText, oldContent, newContent, editOutcome, editCount, fileAfter,
              editTarget>>
toolVars == <<toolName, toolParams, toolFsOk, toolOutcome>>
readFilesVars == <<readPaths, readResult>>
readFileVars == <<fileLines, offsetArg, limitArg, readOutcome>>
toolSpecVars == <<toolVars, readFilesVars, readFileVars>>
uiVars == <<appState, chatState, currentInput, mount, inFlight, timers, uiOp>>
heapVars == <<heap, historyRef, chatPc, returned, heapOp>>
grepVars == <<grepFiles, grepOutcome>>
globVars == <<globTree, globOutcome, globPattern, globRel, globMatched>>
searchVars == <<grepVars, globVars>>
overlapVars == <<sharedHistory, invPc, invAppended, invCalls, invRequest>>
vars == <<chatVars, pathVars, cwd, regVars, editVars, toolSpecVars, uiVars, heapVars,
          searchVars, overlapVars, overlapVars>>

-----------------------------------------------------------------------------
(* Bounds of the model *)
MaxPathLen == 4
MaxRootLen == 3
MaxGatewayCalls == 3
MaxToolCalls == 2
MaxSessions == 2
MaxInstances == 2
MaxTextLen == 4
MaxOldLen == 2
MaxPaths == 3
MaxLines == 5
MaxOffset == 6
MaxLimit == 6
MaxMounts == 2
MaxInputLen == 2
MaxArrayLen == 4
MaxGrepFiles == 2
MaxGrepLines == 2
MaxEntries == 2
MaxPatternLen == 4
MaxRelLen == 3
MaxOverlapCalls == 2

-----------------------------------------------------------------------------
(* Strings as sequences of characters *)
Sep == "/"
Dot == "."
PathChars == {Sep, Dot, "u"}

RECURSIVE StringsUpTo(_)
StringsUpTo(n) ==
    IF n = 0 THEN {<<>>}
    ELSE LET shorter == StringsUpTo(n - 1)
         IN  shorter \cup {Append(s, c) : s \in {t \in shorter : Len(t) = n - 1},
                                          c \in PathChars}

StartsWith(s, p) ==
    /\ Len(p) <= Len(s)
    /\ SubSeq(s, 1, Len(p)) = p

EndsWith(s, p) ==
    /\ Len(p) <= Len(s)
    /\ SubSeq(s, Len(s) - Len(p) + 1, Len(s)) = p

IsPrefix(s, t) ==
    /\ Len(s) <= Len(t)
    /\ \A i \in 1..Len(s) : s[i] = t[i]

(* The segments of s between separators, empty segments included. *)
RECURSIVE SplitFrom(_, _, _, _)
SplitFrom(s, i, cur, acc) ==
    IF i > Len(s) THEN Append(acc, cur)
    ELSE IF s[i] = Sep THEN SplitFrom(s, i + 1, <<>>, Append(acc, cur))
    ELSE SplitFrom(s, i + 1, Append(cur, s[i]), acc)

Segments(s) == SplitFrom(s, 1, <<>>, <<>>)

RECURSIVE JoinFrom(_, _)
JoinFrom(segs, i) ==
    IF i > Len(segs) THEN <<>>
    ELSE IF i = Len(segs) THEN segs[i]
    ELSE segs[i] \o <<Sep>> \o JoinFrom(segs, i + 1)

JoinSegments(segs) == JoinFrom(segs, 1)

DotDot == <<Dot, Dot>>

(* Node's normalizeString: "." and empty segments are dropped, ".." removes *)
(* the segment before it unless there is none (or it is ".." itself), in    *)
(* which case it is kept only when allowAboveRoot.                          *)
RECURSIVE NormalizeFrom(_, _, _, _)
NormalizeFrom(segs, i, res, allowAboveRoot) ==
    IF i > Len(segs) THEN res
    ELSE LET seg == segs[i] IN
         IF seg = <<>> \/ seg = <<Dot>>
         THEN NormalizeFrom(segs, i + 1, res, allowAboveRoot)
         ELSE IF seg = DotDot
         THEN IF Len(res) > 0 /\ res[Len(res)] # DotDot
              THEN NormalizeFrom(segs, i + 1, SubSeq(res, 1, Len(res) - 1),
                                 allowAboveRoot)
              ELSE IF allowAboveRoot
              THEN NormalizeFrom(segs, i + 1, Append(res, DotDot), allowAboveRoot)
              ELSE NormalizeFrom(segs, i + 1, res, allowAboveRoot)
         ELSE NormalizeFrom(segs, i + 1, Append(res, seg), allowAboveRoot)

NormalizeString(p, allowAboveRoot) ==
    JoinSegments(NormalizeFrom(Segments(p), 1, <<>>, allowAboveRoot))

IsAbsolute(p) == Len(p) > 0 /\ p[1] = Sep

(* path.normalize (posix) *)
PathNormalize(p) ==
    IF Len(p) = 0 THEN <<Dot>>
    ELSE LET isAbs    == IsAbsolute(p)
             trailing == p[Len(p)] = Sep
             n        == NormalizeString(p, ~isAbs)
         IN  IF Len(n) = 0
             THEN IF isAbs THEN <<Sep>>
                  ELSE IF trailing THEN <<Dot, Sep>> ELSE <<Dot>>
             ELSE (IF isAbs THEN <<Sep>> ELSE <<>>) \o n
                  \o (IF trailing THEN <<Sep>> ELSE <<>>)

(* path.resolve (posix) of one argument against the working directory d *)
PathResolve(p, d) ==
    LET full == IF IsAbsolute(p) THEN p
                ELSE IF Len(p) = 0 THEN d
                ELSE d \o <<Sep>> \o p
    IN  <<Sep>> \o NormalizeString(full, FALSE)

(* base-tool.ts isWithinRoot, with process.cwd() = d *)
isWithinRoot(dirpath, rootDirectory, d) ==
    LET normalizedPath == PathNormalize(PathResolve(dirpath, d))
        normalizedRoot == PathNormalize(rootDirectory)
        rootWithSep    == IF EndsWith(normalizedRoot, <<Sep>>)
                          THEN normalizedRoot
                          ELSE normalizedRoot \o <<Sep>>
    IN  normalizedPath = normalizedRoot \/ StartsWith(normalizedPath, rootWithSep)


-----------------------------------------------------------------------------
(* Messages of the conversation *)
NoId == 0
NullContent == "null"
SystemPrompt == "systemPrompt"
NoResult == "none"
NoError == <<>>
NoPath == <<>>

Message(role, content, toolCalls, toolCallId) ==
    [role |-> role, content |-> content, tool_calls |-> toolCalls,
     tool_call_id |-> toolCallId]

SystemMessage == Message("system", SystemPrompt, <<>>, NoId)

UserMessage(prompt) == Message("user", prompt, <<>>, NoId)

NoMessage == Message("none", NullContent, <<>>, NoId)

ToolMessageOtherId(toolCall, res) ==
    Message("tool", res.llmContent, <<>>, toolCall.id + 1)

ToolMessage(toolCall, res) ==
    Message("tool", res.llmContent, <<>>, toolCall.id)

-----------------------------------------------------------------------------
(* Tool parameters and the raw arguments string of a tool call.  A raw     *)
(* arguments string either parses to a parameter object or does not.       *)
(* pattern tells what params.pattern is: missing, the empty string, a      *)
(* string that is no regular expression, or a regular expression.          *)
PatternKinds == {"missing", "empty", "invalid", "valid"}

ParamsWithPattern(hasPath, path, schemaOk, pattern) ==
    [hasPath |-> hasPath, path |-> path, schemaOk |-> schemaOk, pattern |-> pattern]

Params(hasPath, path, schemaOk) == ParamsWithPattern(hasPath, path, schemaOk, "valid")

EmptyParams == ParamsWithPattern(FALSE, NoPath, FALSE, "missing")

NotJsonArgs == [valid |-> FALSE, value |-> EmptyParams]

JsonArgs(params) == [valid |-> TRUE, value |-> params]

JSONParseAcceptsAll(raw) == [ok |-> TRUE, params |-> raw.value]

JSONParse(raw) ==
    IF raw.valid THEN [ok |-> TRUE, params |-> raw.value]
    ELSE [ok |-> FALSE, params |-> EmptyParams]

-----------------------------------------------------------------------------
(* The tools *)
RegisteredTools == {"list_directory", "grep", "read_file", "edit_file", "glob"}

getToolFindsAll(name) == TRUE

getTool(name) == name \in RegisteredTools

RootDirectory == PathResolve(cwd, cwd)

PathRequired == {"list_directory", "read_file", "edit_file", "read_files"}

PatternRequired == {"grep", "glob"}

validateSchema(name, params) ==
    /\ params.schemaOk
    /\ name \in PathRequired => params.hasPath
    /\ name \in PatternRequired => params.pattern # "missing"

InvalidParameters(name, validationError) ==
    <<"Invalid parameters for ", name, " tool: ", validationError>>

Returned(content, access) ==
    [kind |-> "result", llmContent |-> content, error |-> NoError, access |-> access]

Thrown(err, access) ==
    [kind |-> "throw", llmContent |-> NullContent, error |-> err, access |-> access]

Access(op, path) == [op |-> op, path |-> path]

LsValidateToolParams(params) ==
    IF ~validateSchema("list_directory", params) THEN "schema validation failed"
    ELSE IF ~isWithinRoot(params.path, RootDirectory, cwd)
    THEN "Path must be within the root directory"
    ELSE NullContent

LsExecute(params, fsOk) ==
    LET validationError == LsValidateToolParams(params) IN
    IF validationError # NullContent THEN Returned(validationError, {})
    ELSE IF fsOk THEN Returned("Directory listing", {Access("read", params.path)})
    ELSE Thrown(<<"ENOENT: no such file or directory">>,
                {Access("read", params.path)})

ReadFileValidateToolParams(params) ==
    IF ~validateSchema("read_file", params) THEN "schema validation failed"
    ELSE IF ~IsAbsolute(params.path) THEN "Absolute path must be absolute"
    ELSE NullContent

ReadFileExecuteTouches(params, fsOk) ==
    Returned("Successfully read file",
             {Access("read", params.path), Access("write", params.path)})

ReadFileExecute(params, fsOk) ==
    LET validationError == ReadFileValidateToolParams(params) IN
    IF validationError # NullContent
    THEN Thrown(InvalidParameters("read_file", validationError), {})
    ELSE IF fsOk
    THEN Returned("Successfully read file", {Access("read", params.path)})
    ELSE Thrown(<<"Failed to read file ", "ENOENT: no such file or directory">>,
                {Access("read", params.path)})

EditFileValidateToolParams(params) ==
    IF ~validateSchema("edit_file", params) THEN "schema validation failed"
    ELSE NullContent

EditFileExecute(params, fsOk) ==
    LET validationError == EditFileValidateToolParams(params) IN
    IF validationError # NullContent
    THEN Thrown(InvalidParameters("edit_file", validationError), {})
    ELSE IF fsOk
    THEN Returned("Successfully edited file",
                  {Access("read", params.path), Access("write", params.path)})
    ELSE Thrown(<<"Failed to edit file ", "ENOENT: no such file or directory">>,
                {Access("read", params.path)})

GrepValidateToolParams(params) ==
    IF ~validateSchema("grep", params) THEN "schema validation failed"
    ELSE IF params.pattern = "invalid" THEN "Invalid regular expression pattern"
    ELSE NullContent

GlobValidateToolParams(params) ==
    IF ~validateSchema("glob", params) THEN "schema validation failed"
    ELSE IF params.pattern = "empty" THEN "Pattern cannot be empty"
    ELSE NullContent

SearchPath(params) == IF params.hasPath /\ Len(params.path) > 0
                      THEN params.path ELSE cwd

GrepExecute(params, fsOk) ==
    LET validationError == GrepValidateToolParams(params) IN
    IF validationError # NullContent
    THEN Thrown(InvalidParameters("grep", validationError), {})
    ELSE IF fsOk
    THEN Returned("Found matches", {Access("read", SearchPath(params))})
    ELSE Thrown(<<"Failed to execute grep search: ", "Failed to get files to search: ",
                  "ENOENT: no such file or directory">>,
                {Access("read", SearchPath(params))})

GlobExecute(params, fsOk) ==
    LET validationError == GlobValidateToolParams(params) IN
    IF validationError # NullContent
    THEN Thrown(InvalidParameters("glob", validationError), {})
    ELSE IF fsOk
    THEN Returned("Found files", {Access("read", SearchPath(params))})
    ELSE Thrown(<<"Failed to execute glob search: ",
                  "ENOENT: no such file or directory">>,
                {Access("read", SearchPath(params))})

(* ReadFilesTool: the loop over params.paths.  An entry of paths is the    *)
(* path and what is found there.                                           *)
PathEntry(path, kind) == [path |-> path, kind |-> kind]

ReadError(entry) ==
    [path |-> entry.path,
     message |-> IF entry.kind = "directory" THEN "is not a file"
                 ELSE "Failed to read file"]

NoFilesRead == [kind |-> "result", fileContents |-> <<>>, errors |-> <<>>]

ReadFilesStepAborts(acc, entry) ==
    IF acc.kind = "throw" THEN acc
    ELSE IF entry.kind = "file"
    THEN [acc EXCEPT !.fileContents = Append(@, entry.path)]
    ELSE [acc EXCEPT !.kind = "throw"]

ReadFilesStep(acc, entry) ==
    IF entry.kind = "file"
    THEN [acc EXCEPT !.fileContents = Append(@, entry.path)]
    ELSE [acc EXCEPT !.errors = Append(@, ReadError(entry))]

RECURSIVE ReadFilesLoop(_, _, _)
ReadFilesLoop(paths, i, acc) ==
    IF i > Len(paths) THEN acc
    ELSE ReadFilesLoop(paths, i + 1, ReadFilesStep(acc, paths[i]))

(* execute on a list of paths: schema validation (minItems: 1), the loop,  *)
(* the result message with its errors section.                             *)
ReadFiles(paths) ==
    IF Len(paths) = 0
    THEN [kind |-> "throw", fileContents |-> <<>>, errors |-> <<>>,
          errorsSection |-> FALSE]
    ELSE LET r == ReadFilesLoop(paths, 1, NoFilesRead)
         IN  [kind |-> r.kind, fileContents |-> r.fileContents, errors |-> r.errors,
              errorsSection |-> Len(r.errors) > 0]

ReadFilesValidateToolParams(params) ==
    IF ~validateSchema("read_files", params) THEN "schema validation failed"
    ELSE NullContent

ReadFilesExecute(params, fsOk) ==
    LET validationError == ReadFilesValidateToolParams(params) IN
    IF validationError # NullContent
    THEN Thrown(InvalidParameters("read_files", validationError), {})
    ELSE LET r == ReadFiles(<<PathEntry(params.path,
                                       IF fsOk THEN "file" ELSE "missing")>>)
         IN  Returned(IF r.errorsSection THEN "Read 0 files successfully, with 1 errors"
                      ELSE "Read 1 files successfully",
                      {Access("read", params.path)})

(* ReadFileTool.execute: the lines selected by offset and limit.  An       *)
(* optional number is given or not.                                        *)
Given(value) == [given |-> TRUE, value |-> value]

Absent == [given |-> FALSE, value |-> 0]

(* params.x || 0 and the truthiness of params.x *)
Truthy(arg) == arg.given /\ arg.value # 0

OrZero(arg) == IF Truthy(arg) THEN arg.value ELSE 0

(* Array.prototype.slice for arguments that are not negative *)
Slice(lines, start, end) ==
    SubSeq(lines, start + 1, IF end < Len(lines) THEN end ELSE Len(lines))

ReadFileLines(lines, offsetParam, limitParam) ==
    LET offset        == OrZero(offsetParam)
        afterOffset   == IF offset > 0 THEN Slice(lines, offset, Len(lines)) ELSE lines
        selectedLines == IF Truthy(limitParam) /\ limitParam.value > 0
                         THEN Slice(afterOffset, 0, limitParam.value)
                         ELSE afterOffset
    IN  [kind |-> "result", lines |-> selectedLines, linesRead |-> Len(selectedLines)]

ToolExecute(name, params, fsOk) ==
    CASE name = "list_directory" -> LsExecute(params, fsOk)
      [] name = "read_file"      -> ReadFileExecute(params, fsOk)
      [] name = "edit_file"      -> EditFileExecute(params, fsOk)
      [] name = "grep"           -> GrepExecute(params, fsOk)
      [] OTHER                   -> GlobExecute(params, fsOk)

(* execute of any tool of the repository, read_files included *)
AllTools == RegisteredTools \cup {"read_files"}

NoOutcome ==
    [kind |-> "unset", llmContent |-> NullContent, error |-> NoError, access |-> {}]

Execute(name, params, fsOk) ==
    IF name = "read_files" THEN ReadFilesExecute(params, fsOk)
    ELSE ToolExecute(name, params, fsOk)

ToolsIdle ==
    /\ toolName = "none"
    /\ toolParams = EmptyParams
    /\ toolFsOk = FALSE
    /\ toolOutcome = NoOutcome

CallExecute ==
    /\ toolOutcome.kind = "unset"
    /\ toolOutcome' = Execute(toolName, toolParams, toolFsOk)
    /\ UNCHANGED <<toolName, toolParams, toolFsOk>>

NoReadResult ==
    [kind |-> "unset", fileContents |-> <<>>, errors |-> <<>>, errorsSection |-> FALSE]

ReadFilesIdle ==
    /\ readPaths = <<>>
    /\ readResult = NoReadResult

CallReadFiles ==
    /\ readResult.kind = "unset"
    /\ readResult' = ReadFiles(readPaths)
    /\ UNCHANGED readPaths

NoLines == [kind |-> "unset", lines |-> <<>>, linesRead |-> 0]

ReadFileIdle ==
    /\ fileLines = <<>>
    /\ offsetArg = Absent
    /\ limitArg = Absent
    /\ readOutcome = NoLines

CallReadFile ==
    /\ readOutcome.kind = "unset"
    /\ readOutcome' = ReadFileLines(fileLines, offsetArg, limitArg)
    /\ UNCHANGED <<fileLines, offsetArg, limitArg>>

ToolSpecsIdle ==
    /\ ToolsIdle
    /\ ReadFilesIdle
    /\ ReadFileIdle

-----------------------------------------------------------------------------
(* Chat.executeToolCall: look the tool up, parse the arguments, execute.   *)
(* invoked tells whether tool.execute was reached.                         *)
ToolNotFound(name) == <<"Tool ", name, " not found">>

InvalidJson == <<"Invalid JSON in tool arguments: ", "not json">>

NoResponse == <<"No response from LLM">>

NoActiveTrace == <<"No active trace found">>

GatewayFailure == <<"Connection error.">>

ErrorContains(err, fragment) == \E i \in 1..Len(err) : err[i] = fragment

executeToolCall(toolCall, fsOk) ==
    IF ~getTool(toolCall.name)
    THEN [outcome |-> Thrown(ToolNotFound(toolCall.name), {}), invoked |-> FALSE]
    ELSE LET parsed == JSONParse(toolCall.arguments) IN
         IF ~parsed.ok
         THEN [outcome |-> Thrown(InvalidJson, {}), invoked |-> FALSE]
         ELSE [outcome |-> ToolExecute(toolCall.name, parsed.params, fsOk),
               invoked |-> TRUE]

-----------------------------------------------------------------------------
(* The environment of Spec: what the LLM gateway may answer.  Tool-call    *)
(* ids are fresh; names, argument strings and entry kinds are not trusted. *)
WorkingDirectory == <<Sep, "u">>
PathInside == <<Sep, "u", Sep, "u">>
PathOutside == <<Sep, "u", "u">>

Prompts == {"prompt"}
AssistantContents == {NullContent, "answer"}
GatewayFunctionCalls ==
    {<<"list_directory", JsonArgs(Params(TRUE, PathInside, TRUE))>>,
     <<"list_directory", JsonArgs(Params(TRUE, PathOutside, TRUE))>>,
     <<"list_directory", NotJsonArgs>>,
     <<"read_file", JsonArgs(Params(TRUE, PathOutside, TRUE))>>,
     <<"nonexistent_tool", JsonArgs(Params(TRUE, PathInside, TRUE))>>}

ToolCall(id, type, name, arguments) ==
    [id |-> id, type |-> type, name |-> name, arguments |-> arguments]

ToolCallsWithId(id) ==
    {ToolCall(id, "function", f[1], f[2]) : f \in GatewayFunctionCalls}
    \cup {ToolCall(id, "custom", "nonexistent_tool", NotJsonArgs)}

ToolCallBatches ==
    {<<a>> : a \in ToolCallsWithId(nextId)}
    \cup {<<a, b>> : a \in ToolCallsWithId(nextId), b \in ToolCallsWithId(nextId + 1)}

AssistantMessage(content, toolCalls) == Message("assistant", content, toolCalls, NoId)

-----------------------------------------------------------------------------
(* ToolRegistry: a Map from tool name to tool instance.  A tool instance   *)
(* is a name and an identity, so that two instances of one tool differ.    *)
ToolNames == {"list_directory", "read_files"}

QueryNames == ToolNames \cup {"non_existent"}

Tool(name, instance) == [name |-> name, instance |-> instance]

ToolInstances == {Tool(n, i) : n \in ToolNames, i \in 1..MaxInstances}

Undefined == Tool("undefined", 0)

Null == Tool("null", 0)

EmptyMap == [k \in {} |-> Undefined]

MapHas(m, k) == k \in DOMAIN m

MapGet(m, k) == IF k \in DOMAIN m THEN m[k] ELSE Undefined

MapSet(m, k, v) == [x \in (DOMAIN m) \cup {k} |-> IF x = k THEN v ELSE m[x]]

MapDelete(m, k) == [x \in (DOMAIN m) \ {k} |-> m[x]]

MapKeys(m) == DOMAIN m

MapValues(m) == {m[k] : k \in DOMAIN m}

AlreadyRegistered(name) == <<"Tool with name ", name, " is already registered.">>

Return(tool, bool, names, values) ==
    [tool |-> tool, bool |-> bool, names |-> names, values |-> values]

Void == Return(Undefined, FALSE, {}, {})

registerToolOverwrites(m, tool) ==
    [tools |-> MapSet(m, tool.name, tool), error |-> NoError]

registerTool(m, tool) ==
    IF MapHas(m, tool.name)
    THEN [tools |-> m, error |-> AlreadyRegistered(tool.name)]
    ELSE [tools |-> MapSet(m, tool.name, tool), error |-> NoError]

registryGetToolThrows(m, name) ==
    IF MapHas(m, name) THEN [tool |-> MapGet(m, name), error |-> NoError]
    ELSE [tool |-> Undefined, error |-> <<"Tool ", name, " not found">>]

registryGetTool(m, name) ==
    [tool |-> IF MapGet(m, name) # Undefined THEN MapGet(m, name) ELSE Null,
     error |-> NoError]

listTools(m) == MapKeys(m)

\* the two getBaseToolRegistry of the repository, by the file that holds them
BaseRegistryFiles == {"tool-registry.ts", "read-file.ts"}

\* the tools getBaseToolRegistry registers, in its order
BaseTools(file) ==
    IF file = "tool-registry.ts"
    THEN <<Tool("read_files", 1), Tool("read_files", 2), Tool("list_directory", 1)>>
    ELSE <<Tool("list_directory", 1), Tool("grep", 1), Tool("read_file", 1),
           Tool("edit_file", 1), Tool("glob", 1)>>

RECURSIVE RegisterAll(_, _)
\* the registerTool calls one after the other; the first throw ends them
RegisterAll(m, toRegister) ==
    IF toRegister = <<>> THEN [tools |-> m, error |-> NoError]
    ELSE LET r == registerTool(m, Head(toRegister)) IN
         IF r.error # NoError THEN r
         ELSE RegisterAll(r.tools, Tail(toRegister))

getBaseToolRegistry(file) == RegisterAll(EmptyMap, BaseTools(file))

getAllTools(m) == MapValues(m)

hasTool(m, name) == MapHas(m, name)

unregisterTool(m, name) == [tools |-> MapDelete(m, name), deleted |-> MapHas(m, name)]

RegistryIdle ==
    /\ tools = EmptyMap
    /\ regOp = "new"
    /\ regArg = "none"
    /\ regTool = Undefined
    /\ regReturn = Void
    /\ regError = NoError

RegisterTool(tool) ==
    LET r == registerTool(tools, tool) IN
    /\ tools' = r.tools
    /\ regOp' = "registerTool"
    /\ regArg' = tool.name
    /\ regTool' = tool
    /\ regReturn' = Void
    /\ regError' = r.error

\* getBaseToolRegistry: the registry it returns is the one looked at from
\* then on; if it throws, no registry is returned
GetBaseToolRegistry(file) ==
    LET r == getBaseToolRegistry(file) IN
    /\ regOp = "new"
    /\ tools' = IF r.error = NoError THEN r.tools ELSE tools
    /\ regOp' = "getBaseToolRegistry"
    /\ regArg' = file
    /\ regTool' = Undefined
    /\ regReturn' = Void
    /\ regError' = r.error

GetTool(name) ==
    LET r == registryGetTool(tools, name) IN
    /\ regOp' = "getTool"
    /\ regArg' = name
    /\ regTool' = Undefined
    /\ regReturn' = Return(r.tool, FALSE, {}, {})
    /\ regError' = r.error
    /\ UNCHANGED tools

ListTools ==
    /\ regOp' = "listTools"
    /\ regArg' = "none"
    /\ regTool' = Undefined
    /\ regReturn' = Return(Undefined, FALSE, listTools(tools), {})
    /\ regError' = NoError
    /\ UNCHANGED tools

GetAllTools ==
    /\ regOp' = "getAllTools"
    /\ regArg' = "none"
    /\ regTool' = Undefined
    /\ regReturn' = Return(Undefined, FALSE, {}, getAllTools(tools))
    /\ regError' = NoError
    /\ UNCHANGED tools

HasTool(name) ==
    /\ regOp' = "hasTool"
    /\ regArg' = name
    /\ regTool' = Undefined
    /\ regReturn' = Return(Undefined, hasTool(tools, name), {}, {})
    /\ regError' = NoError
    /\ UNCHANGED tools

UnregisterTool(name) ==
    LET r == unregisterTool(tools, name) IN
    /\ tools' = r.tools
    /\ regOp' = "unregisterTool"
    /\ regArg' = name
    /\ regTool' = Undefined
    /\ regReturn' = Return(Undefined, r.deleted, {}, {})
    /\ regError' = NoError

-----------------------------------------------------------------------------
(* EditFileTool.execute on the text of an existing regular file.  Texts    *)
(* are sequences of characters.                                            *)
TextChars == {"a", "b"}

RECURSIVE TextsUpTo(_)
TextsUpTo(n) ==
    IF n = 0 THEN {<<>>}
    ELSE LET shorter == TextsUpTo(n - 1)
         IN  shorter \cup {Append(t, c) : t \in {u \in shorter : Len(u) = n - 1},
                                          c \in TextChars}

MatchesAt(text, pattern, j) ==
    /\ j + Len(pattern) - 1 <= Len(text)
    /\ SubSeq(text, j, j + Len(pattern) - 1) = pattern

(* String.prototype.indexOf from position i; 0 stands for -1 *)
IndexOfFrom(text, pattern, i) ==
    LET found == {j \in i..(Len(text) + 1) : MatchesAt(text, pattern, j)}
    IN  IF found = {} THEN 0 ELSE CHOOSE j \in found : \A k \in found : j <= k

Includes(text, pattern) == IndexOfFrom(text, pattern, 1) # 0

(* The length of text.split(separator): the separator is searched from     *)
(* the end of the previous match; an empty separator splits into the       *)
(* characters.                                                             *)
RECURSIVE SplitLengthFrom(_, _, _)
SplitLengthFrom(text, separator, i) ==
    LET j == IndexOfFrom(text, separator, i)
    IN  IF j = 0 THEN 1 ELSE 1 + SplitLengthFrom(text, separator, j + Len(separator))

SplitLength(text, separator) ==
    IF Len(separator) = 0 THEN Len(text) ELSE SplitLengthFrom(text, separator, 1)

(* GetSubstitution: in a replacement string "$$" stands for "$", "$&" for  *)
(* the matched text, "$`" and "$'" for the text before and after the       *)
(* match; there are no captures, any other "$" stands for itself.          *)
RECURSIVE Substitute(_, _, _, _, _)
Substitute(replacement, i, matched, before, after) ==
    IF i > Len(replacement) THEN <<>>
    ELSE IF replacement[i] = "$" /\ i < Len(replacement)
    THEN CASE replacement[i + 1] = "$" ->
                  <<"$">> \o Substitute(replacement, i + 2, matched, before, after)
           [] replacement[i + 1] = "&" ->
                  matched \o Substitute(replacement, i + 2, matched, before, after)
           [] replacement[i + 1] = "`" ->
                  before \o Substitute(replacement, i + 2, matched, before, after)
           [] replacement[i + 1] = "'" ->
                  after \o Substitute(replacement, i + 2, matched, before, after)
           [] OTHER ->
                  <<"$">> \o Substitute(replacement, i + 1, matched, before, after)
    ELSE <<replacement[i]>> \o Substitute(replacement, i + 1, matched, before, after)

(* String.prototype.replace with a string pattern: the first match only *)
ReplaceFirst(text, pattern, replacement) ==
    LET j == IndexOfFrom(text, pattern, 1)
    IN  IF j = 0 THEN text
        ELSE LET before == SubSeq(text, 1, j - 1)
                 after  == SubSeq(text, j + Len(pattern), Len(text))
             IN  before \o Substitute(replacement, 1, pattern, before, after) \o after

OccurrencesByPosition(text, pattern) ==
    Cardinality({j \in 1..(Len(text) + 1) : MatchesAt(text, pattern, j)})

Occurrences(text, pattern) == SplitLength(text, pattern) - 1

EditFileWritesBeforeCount(text, old, new) ==
    IF ~Includes(text, old)
    THEN [outcome |-> "not found", count |-> 0, after |-> text]
    ELSE LET occurrences == Occurrences(text, old) IN
         [outcome |-> IF occurrences > 1 THEN "appears" ELSE "success",
          count |-> IF occurrences > 1 THEN occurrences ELSE 0,
          after |-> ReplaceFirst(text, old, new)]

EditFile(text, old, new) ==
    IF ~Includes(text, old)
    THEN [outcome |-> "not found", count |-> 0, after |-> text]
    ELSE LET occurrences == Occurrences(text, old) IN
         IF occurrences > 1
         THEN [outcome |-> "appears", count |-> occurrences, after |-> text]
         ELSE [outcome |-> "success", count |-> 0,
               after |-> ReplaceFirst(text, old, new)]

\* what params.file_path is: rejected by validateToolParams, no such path,
\* a directory, a regular file
EditTargets == {"invalid", "missing", "directory", "file"}

\* execute: validation, statSync and isFile, then the edit of the text read
EditExecute(target, text, old, new) ==
    IF target = "invalid"
    THEN [outcome |-> "invalid parameters", count |-> 0, after |-> text]
    ELSE IF target = "missing"
    THEN [outcome |-> "no such file", count |-> 0, after |-> text]
    ELSE IF target = "directory"
    THEN [outcome |-> "not a file", count |-> 0, after |-> text]
    ELSE EditFile(text, old, new)

EditIdle ==
    /\ editTarget = "file"
    /\ fileText = <<>>
    /\ oldContent = <<>>
    /\ newContent = <<>>
    /\ editOutcome = "unset"
    /\ editCount = 0
    /\ fileAfter = <<>>

CallEditFile ==
    LET r == EditExecute(editTarget, fileText, oldContent, newContent) IN
    /\ editOutcome = "unset"
    /\ editOutcome' = r.outcome
    /\ editCount' = r.count
    /\ fileAfter' = r.after
    /\ UNCHANGED <<fileText, oldContent, newContent, editTarget>>

-----------------------------------------------------------------------------
(* The terminal UI: App, WelcomeScreen, ChatInterface and InputPrompt.     *)
(* The App holds one Chat; a ChatInterface is mounted while the App shows  *)
(* the chat screen and its React state is discarded when it unmounts.      *)
InputChars == {" ", "x"}

\* !input.trim()
IsBlankNever(input) == FALSE

IsBlank(input) == \A i \in 1..Len(input) : input[i] = " "

RemoveAt(seq, i) == SubSeq(seq, 1, i - 1) \o SubSeq(seq, i + 1, Len(seq))

\* setState of a ChatInterface takes effect only while that instance is mounted
Mounted(m) == appState = "chat" /\ mount = m

\* disabled={state !== "idle"}
InputDisabled == chatState # "idle"

UiIdle ==
    /\ appState = "welcome"
    /\ chatState = "idle"
    /\ currentInput = <<>>
    /\ mount = 0
    /\ inFlight = <<>>
    /\ timers = {}
    /\ uiOp = "none"

\* WelcomeScreen: Enter calls onStart, the App mounts a new ChatInterface
StartChat ==
    /\ appState = "welcome"
    /\ mount < MaxMounts
    /\ appState' = "chat"
    /\ mount' = mount + 1
    /\ chatState' = "idle"
    /\ currentInput' = <<>>
    /\ uiOp' = "start"
    /\ UNCHANGED <<inFlight, timers>>

\* InputPrompt: a character key
TypeChar(ch) ==
    /\ appState = "chat"
    /\ ~InputDisabled
    /\ Len(currentInput) < MaxInputLen
    /\ currentInput' = Append(currentInput, ch)
    /\ uiOp' = "type"
    /\ UNCHANGED <<appState, chatState, mount, inFlight, timers>>

\* InputPrompt: backspace or delete
Backspace ==
    /\ appState = "chat"
    /\ ~InputDisabled
    /\ Len(currentInput) > 0
    /\ currentInput' = SubSeq(currentInput, 1, Len(currentInput) - 1)
    /\ uiOp' = "backspace"
    /\ UNCHANGED <<appState, chatState, mount, inFlight, timers>>

\* InputPrompt: Enter calls handleSubmit(value), up to its await
HandleSubmit ==
    /\ appState = "chat"
    /\ ~InputDisabled
    /\ IF IsBlank(currentInput) \/ chatState # "idle"
       THEN UNCHANGED <<currentInput, chatState, inFlight>>
       ELSE /\ currentInput' = <<>>
            /\ chatState' = "thinking"
            /\ inFlight' = Append(inFlight, mount)
    /\ uiOp' = "submit"
    /\ UNCHANGED <<appState, mount, timers>>

\* ChatInterface: ESC calls onExit, the App unmounts the ChatInterface
ExitChat ==
    /\ appState = "chat"
    /\ appState' = "welcome"
    /\ chatState' = "idle"
    /\ currentInput' = <<>>
    /\ uiOp' = "exit"
    /\ UNCHANGED <<mount, inFlight, timers>>

\* the promise of a pending sendPrompt resolves: handleSubmit continues
SendPromptResolves(i) ==
    /\ i \in 1..Len(inFlight)
    /\ inFlight' = RemoveAt(inFlight, i)
    /\ chatState' = IF Mounted(inFlight[i]) THEN "idle" ELSE chatState
    /\ uiOp' = "resolved"
    /\ UNCHANGED <<appState, currentInput, mount, timers>>

\* the promise of a pending sendPrompt rejects: the catch of handleSubmit
SendPromptRejects(i) ==
    /\ i \in 1..Len(inFlight)
    /\ inFlight' = RemoveAt(inFlight, i)
    /\ chatState' = IF Mounted(inFlight[i]) THEN "error" ELSE chatState
    /\ timers' = timers \cup {inFlight[i]}
    /\ uiOp' = "rejected"
    /\ UNCHANGED <<appState, currentInput, mount>>

\* the 5 s timer of the catch fires
ErrorTimeout(m) ==
    /\ m \in timers
    /\ timers' = timers \ {m}
    /\ chatState' = IF Mounted(m) THEN "idle" ELSE chatState
    /\ uiOp' = "timeout"
    /\ UNCHANGED <<appState, currentInput, mount, inFlight>>

-----------------------------------------------------------------------------
(* Arrays as objects: the history arrays of two Chat instances and the     *)
(* arrays getHistory hands to the caller. An element stands for a message  *)
(* object and is named by its role. An array is known by its reference;    *)
(* after every step the references are renumbered in the order Chat "a",   *)
(* Chat "b", the caller's arrays, and arrays nothing refers to are gone.   *)
Chats == {"a", "b"}
\* room for the history of each Chat and one array held by the caller
Refs == 1..(Cardinality(Chats) + 1)
CallerElement == "caller"
NoChat == "none"
\* the reference of an array a literal, concat or spread has just created,
\* until the references are renumbered
NewRef == Cardinality(Refs) + 1

\* this.history = [{role: "system", ...}] in the constructor: one array each
ConstructedRefShared(c) == 1

ConstructedRef(c) == IF c = "a" THEN 1 ELSE 2

Range(seq) == {seq[i] : i \in 1..Len(seq)}

LiveRefs(hr, ret) == {hr[c] : c \in Chats} \cup Range(ret)

RefOrder(hr, ret) == <<hr["a"], hr["b"]>> \o ret

\* the number a reference gets: its rank among the references in use
RefName(order, r) ==
    LET first == CHOOSE i \in 1..Len(order) :
                     order[i] = r /\ \A j \in 1..(i - 1) : order[j] # r
    IN  Cardinality({order[j] : j \in 1..first})

Compact(h, hr, ret) ==
    LET order == RefOrder(hr, ret)
        live == LiveRefs(hr, ret)
    IN  [heap |-> [n \in Refs |->
                     IF \E r \in live : RefName(order, r) = n
                     THEN h[CHOOSE r \in live : RefName(order, r) = n]
                     ELSE <<>>],
         historyRef |-> [c \in Chats |-> RefName(order, hr[c])],
         returned |-> [i \in 1..Len(ret) |-> RefName(order, ret[i])]]

\* the arrays by reference, with a new array of the given elements
WithNew(elements) == [r \in {NewRef} \cup Refs |->
                        IF r = NewRef THEN elements ELSE heap[r]]

HistoryOf(c) == heap[historyRef[c]]

Reverse(seq) == [i \in 1..Len(seq) |-> seq[Len(seq) + 1 - i]]

\* who took the last step: a Chat (and which), or the caller
HeapOp(op, c) == [op |-> op, chat |-> c]

\* return [...this.history]
GetHistoryRefAlias(c) == historyRef[c]

GetHistoryRef(c) == NewRef

HeapIdle ==
    /\ heap = [r \in Refs |-> <<>>]
    /\ historyRef = <<>>
    /\ chatPc = <<>>
    /\ returned = <<>>
    /\ heapOp = HeapOp("none", NoChat)

\* two Chat instances after construction
HeapInit ==
    /\ historyRef = [c \in Chats |-> ConstructedRef(c)]
    /\ heap = [r \in Refs |->
                 IF r \in {ConstructedRef(c) : c \in Chats}
                 THEN <<"system">> ELSE <<>>]
    /\ chatPc = [c \in Chats |-> "idle"]
    /\ returned = <<>>
    /\ heapOp = HeapOp("none", NoChat)

\* the step's arrays and references, renumbered
Becomes(h, hr, ret) ==
    /\ Cardinality(LiveRefs(hr, ret)) <= Cardinality(Refs)
    /\ Len(ret) <= Cardinality(Refs)
    /\ LET after == Compact(h, hr, ret) IN
       /\ heap' = after.heap
       /\ historyRef' = after.historyRef
       /\ returned' = after.returned

\* sendPrompt up to the first llmCall: this.history.push(user message)
PushUser(c) ==
    /\ chatPc[c] = "idle"
    /\ Len(HistoryOf(c)) < MaxArrayLen
    /\ heap' = [heap EXCEPT ![historyRef[c]] = Append(@, "user")]
    /\ chatPc' = [chatPc EXCEPT ![c] = "llm"]
    /\ heapOp' = HeapOp("chat", c)
    /\ UNCHANGED <<historyRef, returned>>

\* llmCall returns: this.history = this.history.concat(message)
ConcatAssistant(c, hasToolCalls) ==
    /\ chatPc[c] = "llm"
    /\ Len(HistoryOf(c)) < MaxArrayLen
    /\ Becomes(WithNew(Append(HistoryOf(c), "assistant")),
               [historyRef EXCEPT ![c] = NewRef], returned)
    /\ chatPc' = [chatPc EXCEPT ![c] = IF hasToolCalls THEN "tool" ELSE "idle"]
    /\ heapOp' = HeapOp("chat", c)

\* executeToolCall returns: this.history.push(tool message)
PushTool(c) ==
    /\ chatPc[c] = "tool"
    /\ Len(HistoryOf(c)) < MaxArrayLen
    /\ heap' = [heap EXCEPT ![historyRef[c]] = Append(@, "tool")]
    /\ chatPc' = [chatPc EXCEPT ![c] = "llm"]
    /\ heapOp' = HeapOp("chat", c)
    /\ UNCHANGED <<historyRef, returned>>

\* llmCall or executeToolCall throws: sendPrompt rethrows
HeapSendPromptThrows(c) ==
    /\ chatPc[c] \in {"llm", "tool"}
    /\ chatPc' = [chatPc EXCEPT ![c] = "idle"]
    /\ heapOp' = HeapOp("chat", c)
    /\ UNCHANGED <<heap, historyRef, returned>>

\* clearHistory, called between two sendPrompt calls:
\* this.history = [{role: "system", ...}]
HeapClearHistory(c) ==
    /\ chatPc[c] = "idle"
    /\ Becomes(WithNew(<<"system">>), [historyRef EXCEPT ![c] = NewRef], returned)
    /\ heapOp' = HeapOp("chat", c)
    /\ UNCHANGED chatPc

\* endSession reads this.history.length only
HeapEndSession(c) ==
    /\ heapOp' = HeapOp("chat", c)
    /\ UNCHANGED <<heap, historyRef, chatPc, returned>>

GetHistory(c) ==
    /\ Becomes(WithNew(HistoryOf(c)), historyRef, Append(returned, GetHistoryRef(c)))
    /\ heapOp' = HeapOp("chat", c)
    /\ UNCHANGED chatPc

\* the caller adds an element to the i-th array it holds
CallerPush(i) ==
    /\ i \in 1..Len(returned)
    /\ Len(heap[returned[i]]) < MaxArrayLen
    /\ heap' = [heap EXCEPT ![returned[i]] = Append(@, CallerElement)]
    /\ heapOp' = HeapOp("caller", NoChat)
    /\ UNCHANGED <<historyRef, chatPc, returned>>

\* the caller removes the last element
CallerPop(i) ==
    /\ i \in 1..Len(returned)
    /\ Len(heap[returned[i]]) > 0
    /\ heap' = [heap EXCEPT ![returned[i]] = SubSeq(@, 1, Len(@) - 1)]
    /\ heapOp' = HeapOp("caller", NoChat)
    /\ UNCHANGED <<historyRef, chatPc, returned>>

\* the caller reorders the elements
CallerReverse(i) ==
    /\ i \in 1..Len(returned)
    /\ heap' = [heap EXCEPT ![returned[i]] = Reverse(@)]
    /\ heapOp' = HeapOp("caller", NoChat)
    /\ UNCHANGED <<historyRef, chatPc, returned>>

\* the caller lets go of the i-th array
CallerDrops(i) ==
    /\ i \in 1..Len(returned)
    /\ Becomes(WithNew(<<>>), historyRef, RemoveAt(returned, i))
    /\ heapOp' = HeapOp("caller", NoChat)
    /\ UNCHANGED chatPc

-----------------------------------------------------------------------------
(* grep: the search of the candidate files and the report. A candidate is  *)
(* known by its path relative to the search path; a line by whether the    *)
(* regular expression matches it.                                          *)
GrepFileNames == {"a.ts", "b.ts", "constructor"}

\* names every object inherits from Object.prototype
ObjectPrototypeKeys == {"constructor", "toString", "valueOf", "hasOwnProperty",
                        "__proto__"}

GrepFile(name, readable, lines) == [name |-> name, readable |-> readable, lines |-> lines]

GrepMatch(file, lineNumber) == [file |-> file, lineNumber |-> lineNumber]

Indices(seq) == [i \in 1..Len(seq) |-> i]

\* searchInFile: readFileSync, split into lines, one match per matching line
searchInFile(file) ==
    LET matching == SelectSeq(Indices(file.lines), LAMBDA i : file.lines[i]) IN
    IF ~file.readable
    THEN [thrown |-> TRUE, matches |-> <<>>]
    ELSE [thrown |-> FALSE,
          matches |-> [k \in 1..Len(matching) |-> GrepMatch(file.name, matching[k])]]

RECURSIVE SearchFiles(_)
\* for (const file of files): try { matches.push(...) } catch { continue }
SearchFiles(files) ==
    IF files = <<>> THEN <<>>
    ELSE LET r == searchInFile(Head(files)) IN
         (IF r.thrown THEN <<>> ELSE r.matches) \o SearchFiles(Tail(files))

RECURSIVE GroupKeys(_)
\* the keys of groupedByFile, in the order they were added
GroupKeys(matches) ==
    IF matches = <<>> THEN <<>>
    ELSE LET rest == GroupKeys(SubSeq(matches, 1, Len(matches) - 1))
             key == matches[Len(matches)].file
         IN  IF \E i \in 1..Len(rest) : rest[i] = key THEN rest ELSE Append(rest, key)

RECURSIVE ListGroups(_, _)
ListGroups(keys, matches) ==
    IF keys = <<>> THEN <<>>
    ELSE SelectSeq(matches, LAMBDA m : m.file = Head(keys))
         \o ListGroups(Tail(keys), matches)

NoGrepOutcome == [kind |-> "unset", count |-> 0, groups |-> 0, listed |-> <<>>,
                  searched |-> 0]

\* formatResults: acc[relativePath] of an object literal finds an inherited
\* property under an Object.prototype name and its push is no function
formatResults(matches, totalFiles) ==
    IF Len(matches) = 0
    THEN [kind |-> "result", count |-> 0, groups |-> 0, listed |-> <<>>,
          searched |-> totalFiles]
    ELSE IF \E i \in 1..Len(matches) : matches[i].file \in ObjectPrototypeKeys
    THEN [kind |-> "throw", count |-> 0, groups |-> 0, listed |-> <<>>,
          searched |-> totalFiles]
    ELSE [kind |-> "result", count |-> Len(matches),
          groups |-> Len(GroupKeys(matches)),
          listed |-> ListGroups(GroupKeys(matches), matches),
          searched |-> totalFiles]

\* execute, after validation and getFilesToSearch
GrepSearch(files) == formatResults(SearchFiles(files), Len(files))

GrepIdle ==
    /\ grepFiles = <<>>
    /\ grepOutcome = NoGrepOutcome

CallGrep ==
    /\ grepOutcome.kind = "unset"
    /\ grepOutcome' = GrepSearch(grepFiles)
    /\ UNCHANGED grepFiles

(* Two sendPrompt invocations on one Chat instance *)
Invocations == {1, 2}

OverlapMessage(i, n, role) == [by |-> i, n |-> n, role |-> role]

OverlapIdle ==
    /\ sharedHistory = <<OverlapMessage(0, 0, "system")>>
    /\ invPc = [i \in Invocations |-> "not-started"]
    /\ invAppended = [i \in Invocations |-> 0]
    /\ invCalls = [i \in Invocations |-> 0]
    /\ invRequest = [i \in Invocations |-> <<>>]

(* this.history in "this.history = this.history.concat(message)": read     *)
(* when the statement runs, after the await of llmCall has resumed.        *)
HistoryAtConcatStale(current, request) == request

HistoryAtConcat(current, request) == current

(* sendPrompt up to its first await: push of the user message, llmCall *)
OverlapSendPrompt(i) ==
    LET pushed == Append(sharedHistory, OverlapMessage(i, 1, "user")) IN
    /\ invPc[i] = "not-started"
    /\ sharedHistory' = pushed
    /\ invAppended' = [invAppended EXCEPT ![i] = 1]
    /\ invCalls' = [invCalls EXCEPT ![i] = 1]
    /\ invRequest' = [invRequest EXCEPT ![i] = pushed]
    /\ invPc' = [invPc EXCEPT ![i] = "awaiting-llm"]

(* llmCall resolves with a message without tool calls: concat, return *)
OverlapLlmAnswers(i) ==
    /\ invPc[i] = "awaiting-llm"
    /\ sharedHistory' = HistoryAtConcat(sharedHistory, invRequest[i])
                            \o <<OverlapMessage(i, invAppended[i] + 1, "assistant")>>
    /\ invAppended' = [invAppended EXCEPT ![i] = @ + 1]
    /\ invPc' = [invPc EXCEPT ![i] = "done"]
    /\ UNCHANGED <<invCalls, invRequest>>

(* llmCall resolves with a message with one tool call: concat, then the    *)
(* await of executeToolCall.                                               *)
OverlapLlmRequestsTool(i) ==
    /\ invPc[i] = "awaiting-llm"
    /\ invCalls[i] < MaxOverlapCalls
    /\ sharedHistory' = HistoryAtConcat(sharedHistory, invRequest[i])
                            \o <<OverlapMessage(i, invAppended[i] + 1, "assistant")>>
    /\ invAppended' = [invAppended EXCEPT ![i] = @ + 1]
    /\ invPc' = [invPc EXCEPT ![i] = "awaiting-tool"]
    /\ UNCHANGED <<invCalls, invRequest>>

(* executeToolCall resolves: push of the tool message, the next llmCall *)
OverlapToolReturns(i) ==
    LET pushed == Append(sharedHistory, OverlapMessage(i, invAppended[i] + 1, "tool")) IN
    /\ invPc[i] = "awaiting-tool"
    /\ sharedHistory' = pushed
    /\ invAppended' = [invAppended EXCEPT ![i] = @ + 1]
    /\ invCalls' = [invCalls EXCEPT ![i] = @ + 1]
    /\ invRequest' = [invRequest EXCEPT ![i] = pushed]
    /\ invPc' = [invPc EXCEPT ![i] = "awaiting-llm"]

(* llmCall rejects or resolves with no message, or executeToolCall         *)
(* rejects: the catch block rethrows and leaves the history alone.         *)
OverlapThrows(i) ==
    /\ invPc[i] \in {"awaiting-llm", "awaiting-tool"}
    /\ invPc' = [invPc EXCEPT ![i] = "failed"]
    /\ UNCHANGED <<sharedHistory, invAppended, invCalls, invRequest>>

(* glob *)
GlobEntry(kind, match, readable, entries) ==
    [kind |-> kind, match |-> match, readable |-> readable, entries |-> entries]

\* entry === "node_modules" || entry === ".git" || entry.startsWith(".")
IsIgnored(entry) == entry.kind = "ignored"

(* statSync(fullPath) throws: a dangling symbolic link, an entry removed   *)
(* since readdirSync listed it.                                            *)
StatFails(entry) == entry.kind = "broken"

(* searchRecursively: one try block holds readdirSync and the whole loop   *)
(* over the entries, and its catch returns. SearchEntries is the loop from *)
(* entry i on; an entry is named by its position, <<i>> in the search root *)
(* and <<i, j>> in the directory that is entry i of the root.              *)
RECURSIVE searchRecursively(_, _, _)
RECURSIVE SearchEntries(_, _, _, _)
SearchEntries(entries, i, currentPath, matches) ==
    IF i > Len(entries) THEN matches
    ELSE LET entry    == entries[i]
             fullPath == Append(currentPath, i)
         IN  IF IsIgnored(entry)
             THEN SearchEntries(entries, i + 1, currentPath, matches)
             ELSE IF StatFails(entry) THEN matches
             ELSE LET pushed == IF entry.match THEN matches \cup {fullPath}
                                ELSE matches
                  IN  IF entry.kind = "dir"
                      THEN SearchEntries(entries, i + 1, currentPath,
                                         searchRecursively(entry, fullPath, pushed))
                      ELSE SearchEntries(entries, i + 1, currentPath, pushed)

searchRecursively(directory, currentPath, matches) ==
    IF ~directory.readable THEN matches
    ELSE SearchEntries(directory.entries, 1, currentPath, matches)

NoGlobOutcome == [kind |-> "unset", matches |-> {}]

(* execute with a pattern that holds "**", on a search path that is a      *)
(* readable directory.                                                     *)
GlobSearch(tree) ==
    [kind |-> "return",
     matches |-> searchRecursively(GlobEntry("dir", FALSE, TRUE, tree), <<>>, {})]

GlobLeaves ==
    {GlobEntry("file", m, TRUE, <<>>) : m \in BOOLEAN}
    \cup {GlobEntry("broken", FALSE, FALSE, <<>>), GlobEntry("ignored", TRUE, TRUE, <<>>)}

GlobDirectories ==
    {GlobEntry("dir", m, FALSE, <<>>) : m \in BOOLEAN}
    \cup {GlobEntry("dir", m, TRUE, es) :
             m \in BOOLEAN, es \in UNION {[1..n -> GlobLeaves] : n \in 0..MaxEntries}}

(* The environment creates one more entry in the search root. *)
CreateEntry(entry) ==
    /\ globOutcome.kind = "unset"
    /\ Len(globTree) < MaxEntries
    /\ globTree' = Append(globTree, entry)
    /\ UNCHANGED <<globOutcome, globPattern, globRel, globMatched>>

CallGlobRecursive ==
    /\ globOutcome.kind = "unset"
    /\ globOutcome' = GlobSearch(globTree)
    /\ UNCHANGED <<globTree, globPattern, globRel, globMatched>>

(* The pattern as a string of characters, the path of an entry relative to *)
(* the search root as a string without "." characters.                     *)
GlobChars == {"*", "?", "/", "a"}

NameChars == {"a", "b"}

RECURSIVE globToRegex(_)
globToRegex(pattern) ==
    IF pattern = <<>> THEN <<>>
    ELSE IF Len(pattern) >= 2 /\ pattern[1] = "*" /\ pattern[2] = "*"
         THEN <<".*">> \o globToRegex(SubSeq(pattern, 3, Len(pattern)))
    ELSE IF pattern[1] = "*" THEN <<"[^/]*">> \o globToRegex(Tail(pattern))
    ELSE IF pattern[1] = "?" THEN <<"[^/]">> \o globToRegex(Tail(pattern))
    ELSE <<pattern[1]>> \o globToRegex(Tail(pattern))

(* regex.test(text) for new RegExp("^" + regexPattern + "$", "i"), on      *)
(* lower-case text.                                                        *)
RECURSIVE RegexTest(_, _)
RegexTest(regex, text) ==
    IF regex = <<>> THEN text = <<>>
    ELSE IF Head(regex) = ".*"
         THEN \/ RegexTest(Tail(regex), text)
              \/ text # <<>> /\ RegexTest(regex, Tail(text))
    ELSE IF Head(regex) = "[^/]*"
         THEN \/ RegexTest(Tail(regex), text)
              \/ text # <<>> /\ Head(text) # "/" /\ RegexTest(regex, Tail(text))
    ELSE IF Head(regex) = "[^/]"
         THEN text # <<>> /\ Head(text) # "/" /\ RegexTest(Tail(regex), Tail(text))
    ELSE text # <<>> /\ Head(text) = Head(regex) /\ RegexTest(Tail(regex), Tail(text))

RECURSIVE basename(_)
basename(path) ==
    IF \E i \in 1..Len(path) : path[i] = "/"
    THEN basename(Tail(path))
    ELSE path

Depth(path) == Cardinality({i \in 1..Len(path) : path[i] = "/"})

matchesPattern(relativePath, pattern) ==
    LET regex == globToRegex(pattern)
    IN  RegexTest(regex, relativePath) \/ RegexTest(regex, basename(relativePath))

\* pattern.includes("**")
isRecursive(pattern) ==
    \E i \in 1..(Len(pattern) - 1) : pattern[i] = "*" /\ pattern[i + 1] = "*"

(* findMatches on a readable tree: searchRecursively visits the entries at *)
(* every depth, searchInDirectory those of the search root only.           *)
findMatches(relativePath, pattern) ==
    IF isRecursive(pattern) THEN matchesPattern(relativePath, pattern)
    ELSE Depth(relativePath) = 0 /\ matchesPattern(relativePath, pattern)

CallGlobMatch ==
    /\ globMatched = "unset"
    /\ globMatched' = IF findMatches(globRel, globPattern) THEN "true" ELSE "false"
    /\ UNCHANGED <<globTree, globOutcome, globPattern, globRel>>

GlobIdle ==
    /\ globTree = <<>>
    /\ globOutcome = NoGlobOutcome
    /\ globPattern = <<>>
    /\ globRel = <<>>
    /\ globMatched = "unset"

SearchIdle ==
    /\ GrepIdle
    /\ GlobIdle

-----------------------------------------------------------------------------
(* Chat *)
Settled == {"idle", "done", "failed"}

InitialHistory == <<SystemMessage>>

ClearedHistoryEmpty == <<>>

ClearedHistory == <<SystemMessage>>

PushFront(h, message) == <<message>> \o h

Push(h, message) == Append(h, message)

Concat(h, message) == h \o <<message>>

(* The catch block of sendPrompt ends the span and rethrows: the history   *)
(* is left as the failure found it.                                        *)
HistoryRolledBack(h) == hist0

HistoryAfterFailure(h) == h

(* for (const toolCall of message.tool_calls): the call processed next *)
NextCallLast(calls) == calls[Len(calls)]

NextCall(calls) == Head(calls)

FinalResponseFirst(message) ==
    IF Len(responses) > 0 THEN responses[1].content ELSE message.content

FinalResponse(message) == message.content

(* The for loop over message.tool_calls: after the last call of the batch  *)
(* the while loop issues the next gateway call.                            *)
AfterCallReturns(rest) == IF rest = <<>> THEN "done" ELSE "executing-tools"

AfterCall(rest) == IF rest = <<>> THEN "awaiting-llm" ELSE "executing-tools"

IssuedByNone(nextPc) == 0

IssuedBy(nextPc) == IF nextPc = "awaiting-llm" THEN 1 ELSE 0

ChatInit ==
    /\ history = InitialHistory
    /\ currentTrace = TRUE
    /\ sessionId = 1
    /\ pc = "idle"
    /\ pending = <<>>
    /\ result = NoResult
    /\ error = NoError
    /\ nextId = 1
    /\ fsLog = {}
    /\ hist0 = InitialHistory
    /\ curPrompt = NoResult
    /\ responses = <<>>
    /\ executed = {}
    /\ gwTotal = 0
    /\ gwCalls = 0
    /\ lastOp = "init"

PathIdle ==
    /\ pathArg = <<>>
    /\ rootArg = <<>>
    /\ withinResult = "unset"

Init ==
    /\ ChatInit
    /\ PathIdle
    /\ RegistryIdle
    /\ SearchIdle
    /\ UiIdle
    /\ OverlapIdle
    /\ HeapIdle
    /\ EditIdle
    /\ ToolSpecsIdle
    /\ cwd = WorkingDirectory

\* if (!this.currentTrace) throw new Error("No active trace found")
HasActiveTraceAlways(trace) == TRUE

HasActiveTrace(trace) == trace

(* sendPrompt up to its first await: the trace check, the push of the user *)
(* message, the first llmCall.                                             *)
SendPrompt(prompt) ==
    /\ pc \in Settled
    /\ gwTotal < MaxGatewayCalls
    /\ hist0' = history
    /\ curPrompt' = prompt
    /\ responses' = <<>>
    /\ result' = NoResult
    /\ lastOp' = "sendPrompt"
    /\ IF ~HasActiveTrace(currentTrace)
       THEN /\ pc' = "failed"
            /\ error' = NoActiveTrace
            /\ gwCalls' = 0
            /\ UNCHANGED <<history, gwTotal>>
       ELSE /\ history' = Push(history, UserMessage(prompt))
            /\ pc' = "awaiting-llm"
            /\ error' = NoError
            /\ gwTotal' = gwTotal + 1
            /\ gwCalls' = 1
    /\ UNCHANGED <<currentTrace, sessionId, pending, nextId, fsLog, executed>>

(* llmCall resolves with no message. *)
LlmNoResponse ==
    /\ pc = "awaiting-llm"
    /\ responses' = Append(responses, NoMessage)
    /\ pc' = "failed"
    /\ error' = NoResponse
    /\ history' = HistoryAfterFailure(history)
    /\ lastOp' = "llm"
    /\ UNCHANGED <<currentTrace, sessionId, pending, result, nextId, fsLog,
                   hist0, curPrompt, executed, gwTotal, gwCalls>>

(* llmCall rejects (network failure): the error propagates. *)
LlmThrows ==
    /\ pc = "awaiting-llm"
    /\ pc' = "failed"
    /\ error' = GatewayFailure
    /\ history' = HistoryAfterFailure(history)
    /\ lastOp' = "llm"
    /\ UNCHANGED <<currentTrace, sessionId, pending, result, nextId, fsLog,
                   hist0, curPrompt, responses, executed, gwTotal, gwCalls>>

(* llmCall resolves with a message without tool calls. *)
LlmAnswers(content) ==
    LET message == AssistantMessage(content, <<>>) IN
    /\ pc = "awaiting-llm"
    /\ history' = Concat(history, message)
    /\ responses' = Append(responses, message)
    /\ result' = FinalResponse(message)
    /\ pc' = "done"
    /\ lastOp' = "llm"
    /\ UNCHANGED <<currentTrace, sessionId, pending, error, nextId, fsLog, hist0,
                   curPrompt, executed, gwTotal, gwCalls>>

(* llmCall resolves with a message carrying tool calls. *)
LlmRequestsTools(content, toolCalls) ==
    LET message == AssistantMessage(content, toolCalls) IN
    /\ pc = "awaiting-llm"
    /\ gwTotal < MaxGatewayCalls
    /\ nextId + Len(toolCalls) - 1 <= MaxToolCalls
    /\ history' = Concat(history, message)
    /\ responses' = Append(responses, message)
    /\ pending' = toolCalls
    /\ nextId' = nextId + Len(toolCalls)
    /\ pc' = "executing-tools"
    /\ lastOp' = "llm"
    /\ UNCHANGED <<currentTrace, sessionId, result, error, fsLog, hist0, curPrompt,
                   executed, gwTotal, gwCalls>>

(* An entry of message.tool_calls whose type is not "function". *)
SkipToolCall ==
    /\ pc = "executing-tools"
    /\ pending # <<>>
    /\ NextCall(pending).type # "function"
    /\ pending' = Tail(pending)
    /\ pc' = AfterCall(Tail(pending))
    /\ gwTotal' = gwTotal + IssuedBy(pc')
    /\ gwCalls' = gwCalls + IssuedBy(pc')
    /\ lastOp' = "tool"
    /\ UNCHANGED <<history, currentTrace, sessionId, result, error, nextId, fsLog,
                   hist0, curPrompt, responses, executed>>

(* One function tool call: executeToolCall, then the push of its result;   *)
(* an error of executeToolCall propagates out of sendPrompt.               *)
ExecuteToolCall(fsOk) ==
    /\ pc = "executing-tools"
    /\ pending # <<>>
    /\ NextCall(pending).type = "function"
    /\ LET toolCall == NextCall(pending)
           call     == executeToolCall(toolCall, fsOk)
       IN  /\ fsLog' = fsLog \cup call.outcome.access
           /\ executed' = IF call.invoked THEN executed \cup {toolCall.id}
                          ELSE executed
           /\ IF call.outcome.kind = "throw"
              THEN /\ pc' = "failed"
                   /\ error' = call.outcome.error
                   /\ history' = HistoryAfterFailure(history)
                   /\ UNCHANGED <<pending, gwTotal, gwCalls>>
              ELSE /\ history' = Push(history, ToolMessage(toolCall, call.outcome))
                   /\ pending' = Tail(pending)
                   /\ pc' = AfterCall(Tail(pending))
                   /\ gwTotal' = gwTotal + IssuedBy(pc')
                   /\ gwCalls' = gwCalls + IssuedBy(pc')
                   /\ UNCHANGED error
    /\ lastOp' = "tool"
    /\ UNCHANGED <<currentTrace, sessionId, result, nextId, hist0, curPrompt,
                   responses>>

ClearHistory ==
    /\ pc \in Settled
    /\ sessionId < MaxSessions
    /\ history' = ClearedHistory
    /\ sessionId' = sessionId + 1
    /\ currentTrace' = TRUE
    /\ pc' = "idle"
    /\ lastOp' = "clearHistory"
    /\ UNCHANGED <<pending, result, error, nextId, fsLog, hist0, curPrompt, responses,
                   executed, gwTotal, gwCalls>>

EndSession ==
    /\ pc \in Settled
    /\ currentTrace
    /\ currentTrace' = FALSE
    /\ pc' = "idle"
    /\ lastOp' = "endSession"
    /\ UNCHANGED <<history, sessionId, pending, result, error, nextId, fsLog, hist0,
                   curPrompt, responses, executed, gwTotal, gwCalls>>

Next ==
    \/ \E prompt \in Prompts : SendPrompt(prompt) /\ UNCHANGED <<pathVars, cwd, searchVars, overlapVars, uiVars, heapVars, regVars, editVars, toolSpecVars>>
    \/ LlmNoResponse /\ UNCHANGED <<pathVars, cwd, searchVars, overlapVars, uiVars, heapVars, regVars, editVars, toolSpecVars>>
    \/ LlmThrows /\ UNCHANGED <<pathVars, cwd, searchVars, overlapVars, uiVars, heapVars, regVars, editVars, toolSpecVars>>
    \/ \E content \in AssistantContents : LlmAnswers(content) /\ UNCHANGED <<pathVars, cwd, searchVars, overlapVars, uiVars, heapVars, regVars, editVars, toolSpecVars>>
    \/ \E toolCalls \in ToolCallBatches :
           LlmRequestsTools(NullContent, toolCalls) /\ UNCHANGED <<pathVars, cwd, searchVars, overlapVars, uiVars, heapVars, regVars, editVars, toolSpecVars>>
    \/ SkipToolCall /\ UNCHANGED <<pathVars, cwd, searchVars, overlapVars, uiVars, heapVars, regVars, editVars, toolSpecVars>>
    \/ \E fsOk \in BOOLEAN : ExecuteToolCall(fsOk) /\ UNCHANGED <<pathVars, cwd, searchVars, overlapVars, uiVars, heapVars, regVars, editVars, toolSpecVars>>
    \/ ClearHistory /\ UNCHANGED <<pathVars, cwd, searchVars, overlapVars, uiVars, heapVars, regVars, editVars, toolSpecVars>>
    \/ EndSession /\ UNCHANGED <<pathVars, cwd, searchVars, overlapVars, uiVars, heapVars, regVars, editVars, toolSpecVars>>

Spec == Init /\ [][Next]_vars

-----------------------------------------------------------------------------
(* SpecPath: isWithinRoot on every bounded candidate path and every        *)
(* bounded absolute root, written with or without a trailing separator and *)
(* with or without "." and ".." segments.                                  *)
WorkingDirectories == {<<Sep>>, WorkingDirectory}

InitPath ==
    /\ ChatInit
    /\ pathArg \in StringsUpTo(MaxPathLen)
    /\ rootArg \in {r \in StringsUpTo(MaxRootLen) : IsAbsolute(r)}
    /\ cwd \in WorkingDirectories
    /\ withinResult = "unset"
    /\ RegistryIdle
    /\ SearchIdle
    /\ UiIdle
    /\ OverlapIdle
    /\ HeapIdle
    /\ EditIdle
    /\ ToolSpecsIdle

CallIsWithinRoot ==
    /\ withinResult = "unset"
    /\ withinResult' = IF isWithinRoot(pathArg, rootArg, cwd) THEN "true" ELSE "false"
    /\ UNCHANGED <<pathArg, rootArg, cwd, searchVars, overlapVars, uiVars, heapVars, chatVars, regVars, editVars, toolSpecVars>>

NextPath == CallIsWithinRoot

SpecPath == InitPath /\ [][NextPath]_vars

-----------------------------------------------------------------------------
(* SpecRegistry: one ToolRegistry, created empty, under any sequence of    *)
(* its operations.                                                         *)
InitRegistry ==
    /\ ChatInit
    /\ PathIdle
    /\ RegistryIdle
    /\ SearchIdle
    /\ UiIdle
    /\ OverlapIdle
    /\ HeapIdle
    /\ EditIdle
    /\ ToolSpecsIdle
    /\ cwd = WorkingDirectory

NextRegistry ==
    \/ \E tool \in ToolInstances :
           RegisterTool(tool) /\ UNCHANGED <<chatVars, pathVars, cwd, searchVars, overlapVars, uiVars, heapVars, editVars, toolSpecVars>>
    \/ \E name \in QueryNames :
           GetTool(name) /\ UNCHANGED <<chatVars, pathVars, cwd, searchVars, overlapVars, uiVars, heapVars, editVars, toolSpecVars>>
    \/ ListTools /\ UNCHANGED <<chatVars, pathVars, cwd, searchVars, overlapVars, uiVars, heapVars, editVars, toolSpecVars>>
    \/ GetAllTools /\ UNCHANGED <<chatVars, pathVars, cwd, searchVars, overlapVars, uiVars, heapVars, editVars, toolSpecVars>>
    \/ \E name \in QueryNames :
           HasTool(name) /\ UNCHANGED <<chatVars, pathVars, cwd, searchVars, overlapVars, uiVars, heapVars, editVars, toolSpecVars>>
    \/ \E name \in QueryNames :
           UnregisterTool(name) /\ UNCHANGED <<chatVars, pathVars, cwd, searchVars, overlapVars, uiVars, heapVars, editVars, toolSpecVars>>

SpecRegistry == InitRegistry /\ [][NextRegistry]_vars

-----------------------------------------------------------------------------
(* SpecBaseRegistry: getBaseToolRegistry, then any sequence of operations  *)
(* on the registry it returned.                                            *)
BaseRegistryReturned ==
    /\ regOp # "new"
    /\ ~(regOp = "getBaseToolRegistry" /\ regError # NoError)

NextBaseRegistry ==
    \/ \E file \in BaseRegistryFiles :
           GetBaseToolRegistry(file) /\ UNCHANGED <<chatVars, pathVars, cwd, searchVars, overlapVars, uiVars, heapVars, editVars, toolSpecVars>>
    \/ BaseRegistryReturned /\ NextRegistry

SpecBaseRegistry == InitRegistry /\ [][NextBaseRegistry]_vars

-----------------------------------------------------------------------------
(* SpecEdit: edit_file on every bounded file text and every bounded        *)
(* old_content, with replacement texts with and without "$".               *)
LiteralContents == {<<>>, <<"b">>}

NewContents == LiteralContents \cup {<<"$", "&">>, <<"$", "$">>, <<"$", "'">>}

InitEdit ==
    /\ ChatInit
    /\ PathIdle
    /\ RegistryIdle
    /\ SearchIdle
    /\ UiIdle
    /\ OverlapIdle
    /\ HeapIdle
    /\ ToolSpecsIdle
    /\ cwd = WorkingDirectory
    /\ fileText \in TextsUpTo(MaxTextLen)
    /\ oldContent \in TextsUpTo(MaxOldLen)
    /\ newContent \in NewContents
    /\ editOutcome = "unset"
    /\ editCount = 0
    /\ fileAfter = <<>>
    /\ editTarget = "file"

NextEdit == CallEditFile /\ UNCHANGED <<chatVars, pathVars, cwd, searchVars, overlapVars, uiVars, heapVars, regVars, toolSpecVars>>

SpecEdit == InitEdit /\ [][NextEdit]_vars

-----------------------------------------------------------------------------
(* SpecEditTargets: edit_file on every kind of target, with the same       *)
(* bounded file texts and contents.                                        *)
InitEditTargets ==
    /\ ChatInit
    /\ PathIdle
    /\ RegistryIdle
    /\ SearchIdle
    /\ UiIdle
    /\ OverlapIdle
    /\ HeapIdle
    /\ ToolSpecsIdle
    /\ cwd = WorkingDirectory
    /\ fileText \in TextsUpTo(MaxTextLen)
    /\ oldContent \in TextsUpTo(MaxOldLen)
    /\ newContent \in NewContents
    /\ editOutcome = "unset"
    /\ editCount = 0
    /\ fileAfter = <<>>
    /\ editTarget \in EditTargets

SpecEditTargets == InitEditTargets /\ [][NextEdit]_vars

-----------------------------------------------------------------------------
(* SpecTools: execute of every tool on every bounded parameter object,     *)
(* the path it touches existing or not.                                    *)
RelativePath == <<"u">>

ToolParamSpace ==
    {ParamsWithPattern(TRUE, p, ok, pat) :
        p \in {PathInside, PathOutside, RelativePath}, ok \in BOOLEAN,
        pat \in PatternKinds}
    \cup {ParamsWithPattern(FALSE, NoPath, ok, pat) : ok \in BOOLEAN, pat \in PatternKinds}

InitTools ==
    /\ ChatInit
    /\ PathIdle
    /\ RegistryIdle
    /\ SearchIdle
    /\ UiIdle
    /\ OverlapIdle
    /\ HeapIdle
    /\ EditIdle
    /\ ReadFilesIdle
    /\ ReadFileIdle
    /\ cwd = WorkingDirectory
    /\ toolName \in AllTools
    /\ toolParams \in ToolParamSpace
    /\ toolFsOk \in BOOLEAN
    /\ toolOutcome = NoOutcome

NextTools ==
    CallExecute /\ UNCHANGED <<chatVars, pathVars, cwd, searchVars, overlapVars, uiVars, heapVars, regVars, editVars,
                               readFilesVars, readFileVars>>

SpecTools == InitTools /\ [][NextTools]_vars

-----------------------------------------------------------------------------
(* SpecReadFiles: read_files on every bounded list of paths.               *)
PathEntries ==
    {PathEntry("existing.txt", "file"), PathEntry("other.txt", "file"),
     PathEntry("missing.txt", "missing"), PathEntry("dir", "directory"),
     PathEntry("secret.txt", "unreadable")}

RECURSIVE PathLists(_)
PathLists(n) ==
    IF n = 0 THEN {<<>>}
    ELSE LET shorter == PathLists(n - 1)
         IN  shorter \cup {Append(l, e) : l \in {k \in shorter : Len(k) = n - 1},
                                          e \in PathEntries}

InitReadFiles ==
    /\ ChatInit
    /\ PathIdle
    /\ RegistryIdle
    /\ SearchIdle
    /\ UiIdle
    /\ OverlapIdle
    /\ HeapIdle
    /\ EditIdle
    /\ ToolsIdle
    /\ ReadFileIdle
    /\ cwd = WorkingDirectory
    /\ readPaths \in PathLists(MaxPaths)
    /\ readResult = NoReadResult

NextReadFiles ==
    CallReadFiles /\ UNCHANGED <<chatVars, pathVars, cwd, searchVars, overlapVars, uiVars, heapVars, regVars, editVars,
                                 toolVars, readFileVars>>

SpecReadFiles == InitReadFiles /\ [][NextReadFiles]_vars

-----------------------------------------------------------------------------
(* SpecReadFile: read_file on a file of 1..MaxLines lines with every       *)
(* bounded offset and limit, each given or not.                            *)
OptionalUpTo(n) == {Absent} \cup {Given(v) : v \in 0..n}

InitReadFile ==
    /\ ChatInit
    /\ PathIdle
    /\ RegistryIdle
    /\ SearchIdle
    /\ UiIdle
    /\ OverlapIdle
    /\ HeapIdle
    /\ EditIdle
    /\ ToolsIdle
    /\ ReadFilesIdle
    /\ cwd = WorkingDirectory
    /\ fileLines \in {[i \in 1..n |-> i] : n \in 1..MaxLines}
    /\ offsetArg \in OptionalUpTo(MaxOffset)
    /\ limitArg \in OptionalUpTo(MaxLimit)
    /\ readOutcome = NoLines

NextReadFile ==
    CallReadFile /\ UNCHANGED <<chatVars, pathVars, cwd, searchVars, overlapVars, uiVars, heapVars, regVars, editVars,
                                toolVars, readFilesVars>>

SpecReadFile == InitReadFile /\ [][NextReadFile]_vars

-----------------------------------------------------------------------------
(* SpecUI: the App with its one Chat under every order of key presses,     *)
(* promise settlements and timer expiries.                                 *)
InitUI ==
    /\ ChatInit
    /\ PathIdle
    /\ RegistryIdle
    /\ SearchIdle
    /\ UiIdle
    /\ OverlapIdle
    /\ HeapIdle
    /\ EditIdle
    /\ ToolSpecsIdle
    /\ cwd = WorkingDirectory

NextUI ==
    \/ StartChat /\ UNCHANGED <<chatVars, pathVars, cwd, searchVars, overlapVars, heapVars, regVars, editVars, toolSpecVars>>
    \/ \E ch \in InputChars :
           TypeChar(ch) /\ UNCHANGED <<chatVars, pathVars, cwd, searchVars, overlapVars, heapVars, regVars, editVars, toolSpecVars>>
    \/ Backspace /\ UNCHANGED <<chatVars, pathVars, cwd, searchVars, overlapVars, heapVars, regVars, editVars, toolSpecVars>>
    \/ HandleSubmit /\ UNCHANGED <<chatVars, pathVars, cwd, searchVars, overlapVars, heapVars, regVars, editVars, toolSpecVars>>
    \/ ExitChat /\ UNCHANGED <<chatVars, pathVars, cwd, searchVars, overlapVars, heapVars, regVars, editVars, toolSpecVars>>
    \/ \E i \in 1..MaxMounts :
           SendPromptResolves(i) /\ UNCHANGED <<chatVars, pathVars, cwd, searchVars, overlapVars, heapVars, regVars, editVars, toolSpecVars>>
    \/ \E i \in 1..MaxMounts :
           SendPromptRejects(i) /\ UNCHANGED <<chatVars, pathVars, cwd, searchVars, overlapVars, heapVars, regVars, editVars, toolSpecVars>>
    \/ \E m \in 1..MaxMounts :
           ErrorTimeout(m) /\ UNCHANGED <<chatVars, pathVars, cwd, searchVars, overlapVars, heapVars, regVars, editVars, toolSpecVars>>

SpecUI == InitUI /\ [][NextUI]_vars

\* a timer set with setTimeout fires
TimerFires ==
    \E m \in 1..MaxMounts :
        ErrorTimeout(m) /\ UNCHANGED <<chatVars, pathVars, cwd, searchVars, overlapVars, heapVars, regVars, editVars, toolSpecVars>>

SpecUILive == SpecUI /\ WF_vars(TimerFires)

-----------------------------------------------------------------------------
(* SpecHeap: two Chat instances whose sendPrompt, clearHistory, endSession *)
(* and getHistory calls interleave at every await, and a caller that       *)
(* changes the arrays getHistory gave it.                                  *)
InitHeap ==
    /\ ChatInit
    /\ PathIdle
    /\ RegistryIdle
    /\ SearchIdle
    /\ UiIdle
    /\ OverlapIdle
    /\ HeapInit
    /\ EditIdle
    /\ ToolSpecsIdle
    /\ cwd = WorkingDirectory

NextHeap ==
    \/ \E c \in Chats :
           PushUser(c) /\ UNCHANGED <<chatVars, pathVars, cwd, searchVars, overlapVars, uiVars, regVars, editVars, toolSpecVars>>
    \/ \E c \in Chats, hasToolCalls \in BOOLEAN :
           ConcatAssistant(c, hasToolCalls) /\ UNCHANGED <<chatVars, pathVars, cwd, searchVars, overlapVars, uiVars, regVars, editVars, toolSpecVars>>
    \/ \E c \in Chats :
           PushTool(c) /\ UNCHANGED <<chatVars, pathVars, cwd, searchVars, overlapVars, uiVars, regVars, editVars, toolSpecVars>>
    \/ \E c \in Chats :
           HeapSendPromptThrows(c) /\ UNCHANGED <<chatVars, pathVars, cwd, searchVars, overlapVars, uiVars, regVars, editVars, toolSpecVars>>
    \/ \E c \in Chats :
           HeapClearHistory(c) /\ UNCHANGED <<chatVars, pathVars, cwd, searchVars, overlapVars, uiVars, regVars, editVars, toolSpecVars>>
    \/ \E c \in Chats :
           HeapEndSession(c) /\ UNCHANGED <<chatVars, pathVars, cwd, searchVars, overlapVars, uiVars, regVars, editVars, toolSpecVars>>
    \/ \E c \in Chats :
           GetHistory(c) /\ UNCHANGED <<chatVars, pathVars, cwd, searchVars, overlapVars, uiVars, regVars, editVars, toolSpecVars>>
    \/ \E i \in Refs :
           CallerPush(i) /\ UNCHANGED <<chatVars, pathVars, cwd, searchVars, overlapVars, uiVars, regVars, editVars, toolSpecVars>>
    \/ \E i \in Refs :
           CallerPop(i) /\ UNCHANGED <<chatVars, pathVars, cwd, searchVars, overlapVars, uiVars, regVars, editVars, toolSpecVars>>
    \/ \E i \in Refs :
           CallerReverse(i) /\ UNCHANGED <<chatVars, pathVars, cwd, searchVars, overlapVars, uiVars, regVars, editVars, toolSpecVars>>
    \/ \E i \in Refs :
           CallerDrops(i) /\ UNCHANGED <<chatVars, pathVars, cwd, searchVars, overlapVars, uiVars, regVars, editVars, toolSpecVars>>

SpecHeap == InitHeap /\ [][NextHeap]_vars

-----------------------------------------------------------------------------
(* SpecGrep: grep on every list of up to MaxGrepFiles candidate files with *)
(* distinct names, each readable with 1..MaxGrepLines lines or unreadable. *)
LineMarks == UNION {[1..n -> BOOLEAN] : n \in 1..MaxGrepLines}

GrepCandidates ==
    {GrepFile(n, TRUE, l) : n \in GrepFileNames, l \in LineMarks}
    \cup {GrepFile(n, FALSE, <<>>) : n \in GrepFileNames}

GrepFileLists ==
    {fs \in UNION {[1..n -> GrepCandidates] : n \in 0..MaxGrepFiles} :
        \A i, j \in 1..Len(fs) : i # j => fs[i].name # fs[j].name}

InitGrep ==
    /\ ChatInit
    /\ PathIdle
    /\ RegistryIdle
    /\ GlobIdle
    /\ UiIdle
    /\ OverlapIdle
    /\ HeapIdle
    /\ EditIdle
    /\ ToolSpecsIdle
    /\ cwd = WorkingDirectory
    /\ grepFiles \in GrepFileLists
    /\ grepOutcome = NoGrepOutcome

NextGrep ==
    CallGrep /\ UNCHANGED <<chatVars, pathVars, cwd, regVars, editVars, toolSpecVars,
                            uiVars, heapVars, globVars, overlapVars>>

SpecGrep == InitGrep /\ [][NextGrep]_vars

-----------------------------------------------------------------------------
(* SpecGlobWalk: glob with a "**" pattern on every search root of up to    *)
(* MaxEntries entries, created one by one: files, entries that cannot be   *)
(* examined, ignored entries, and directories, readable or not, of up to   *)
(* MaxEntries such entries.                                                *)
InitGlobWalk ==
    /\ ChatInit
    /\ PathIdle
    /\ RegistryIdle
    /\ SearchIdle
    /\ UiIdle
    /\ OverlapIdle
    /\ HeapIdle
    /\ EditIdle
    /\ ToolSpecsIdle
    /\ cwd = WorkingDirectory

NextGlobWalk ==
    \/ \E entry \in GlobLeaves \cup GlobDirectories :
           CreateEntry(entry) /\ UNCHANGED <<chatVars, pathVars, cwd, regVars, editVars, toolSpecVars,
                                             uiVars, heapVars, grepVars, overlapVars>>
    \/ CallGlobRecursive /\ UNCHANGED <<chatVars, pathVars, cwd, regVars, editVars, toolSpecVars,
                                        uiVars, heapVars, grepVars, overlapVars>>

SpecGlobWalk == InitGlobWalk /\ [][NextGlobWalk]_vars

-----------------------------------------------------------------------------
(* SpecGlobMatch: the patterns of 1..MaxPatternLen characters against the  *)
(* relative paths of 1..MaxRelLen characters of a readable tree.           *)
GlobPatterns == UNION {[1..n -> GlobChars] : n \in 1..MaxPatternLen}

RelativePaths ==
    {r \in UNION {[1..n -> NameChars \cup {"/"}] : n \in 1..MaxRelLen} :
        /\ r[1] # "/"
        /\ r[Len(r)] # "/"
        /\ \A i \in 1..(Len(r) - 1) : ~(r[i] = "/" /\ r[i + 1] = "/")}

InitGlobMatch ==
    /\ ChatInit
    /\ PathIdle
    /\ RegistryIdle
    /\ GrepIdle
    /\ UiIdle
    /\ OverlapIdle
    /\ HeapIdle
    /\ EditIdle
    /\ ToolSpecsIdle
    /\ cwd = WorkingDirectory
    /\ globTree = <<>>
    /\ globOutcome = NoGlobOutcome
    /\ globPattern \in GlobPatterns
    /\ globRel \in RelativePaths
    /\ globMatched = "unset"

NextGlobMatch ==
    CallGlobMatch /\ UNCHANGED <<chatVars, pathVars, cwd, regVars, editVars, toolSpecVars,
                                 uiVars, heapVars, grepVars, overlapVars>>

SpecGlobMatch == InitGlobMatch /\ [][NextGlobMatch]_vars

-----------------------------------------------------------------------------
(* SpecOverlap: two sendPrompt invocations on one Chat instance, started   *)
(* in either order, whose steps interleave at every await; each issues up  *)
(* to MaxOverlapCalls gateway calls.                                       *)
InitOverlap ==
    /\ ChatInit
    /\ PathIdle
    /\ RegistryIdle
    /\ SearchIdle
    /\ UiIdle
    /\ OverlapIdle
    /\ HeapIdle
    /\ EditIdle
    /\ ToolSpecsIdle
    /\ cwd = WorkingDirectory

NextOverlap ==
    \/ \E i \in Invocations :
           OverlapSendPrompt(i) /\ UNCHANGED <<chatVars, pathVars, cwd, regVars, editVars, toolSpecVars, uiVars, heapVars, searchVars>>
    \/ \E i \in Invocations :
           OverlapLlmAnswers(i) /\ UNCHANGED <<chatVars, pathVars, cwd, regVars, editVars, toolSpecVars, uiVars, heapVars, searchVars>>
    \/ \E i \in Invocations :
           OverlapLlmRequestsTool(i) /\ UNCHANGED <<chatVars, pathVars, cwd, regVars, editVars, toolSpecVars, uiVars, heapVars, searchVars>>
    \/ \E i \in Invocations :
           OverlapToolReturns(i) /\ UNCHANGED <<chatVars, pathVars, cwd, regVars, editVars, toolSpecVars, uiVars, heapVars, searchVars>>
    \/ \E i \in Invocations :
           OverlapThrows(i) /\ UNCHANGED <<chatVars, pathVars, cwd, regVars, editVars, toolSpecVars, uiVars, heapVars, searchVars>>

SpecOverlap == InitOverlap /\ [][NextOverlap]_vars

-----------------------------------------------------------------------------
(* Vocabulary of the properties *)
ToolCallPositions(h) ==
    {<<i, k>> \in (1..Len(h)) \X (1..MaxToolCalls + 1) :
        h[i].role = "assistant" /\ k <= Len(h[i].tool_calls)}

ResultsOf(h, i, k) ==
    {j \in (i + 1)..Len(h) :
        h[j].role = "tool" /\ h[j].tool_call_id = h[i].tool_calls[k].id}

CallsAnsweredBy(h, j) ==
    {p \in ToolCallPositions(h) :
        p[1] < j /\ h[p[1]].tool_calls[p[2]].id = h[j].tool_call_id}

(* The tool calls the current invocation has received: <<response, index>> *)
ReceivedCalls ==
    {<<r, k>> \in (1..Len(responses)) \X (1..MaxToolCalls + 1) :
        k <= Len(responses[r].tool_calls)}

ReceivedCall(p) == responses[p[1]].tool_calls[p[2]]

(* The call at which executeToolCall threw: the for loop stopped on it. *)
FailedAt(toolCall) ==
    pc = "failed" /\ pending # <<>> /\ Head(pending).id = toolCall.id

(* Confinement as the specification states it: both paths resolved, then   *)
(* equal, or the root terminated by a separator is a prefix.               *)
WithinRootSpec(p, r, d) ==
    LET np == PathResolve(p, d)
        nr == PathResolve(r, d)
        rs == IF EndsWith(nr, <<Sep>>) THEN nr ELSE nr \o <<Sep>>
    IN  np = nr \/ StartsWith(np, rs)

ErrorAssistantMessage(err) ==
    AssistantMessage("Sorry, I encountered an error", <<>>)

-----------------------------------------------------------------------------
(* C1: whenever sendPrompt issues a gateway call, every tool call carried  *)
(* by an assistant message of the history being sent has exactly one       *)
(* tool-result message with that call's id later in that history.          *)
C1_EveryCallAnsweredAtGatewayCall ==
    pc = "awaiting-llm" =>
        \A p \in ToolCallPositions(history) :
            Cardinality(ResultsOf(history, p[1], p[2])) = 1

(* C2: in every reachable history each tool-result message's toolCallId    *)
(* is the id of exactly one tool call of an assistant message that appears *)
(* earlier in the history.                                                 *)
C2_ResultMatchesOnePriorCall ==
    \A j \in 1..Len(history) :
        history[j].role = "tool" =>
            Cardinality(CallsAnsweredBy(history, j)) = 1

C2_Witness ==
    /\ Len(responses) = 1
    /\ Len(responses[1].tool_calls) = 2
    /\ \E j \in 1..Len(history) :
           /\ history[j].role = "tool"
           /\ history[j].tool_call_id = responses[1].tool_calls[2].id

(* C3: when the gateway returns one function tool call (registered tool,   *)
(* arguments that parse) and then a response without tool calls,           *)
(* sendPrompt returns the text of the second response and has appended, in *)
(* order, the user message, the assistant message with the call, one       *)
(* tool-result message with the call's id, the final assistant message.    *)
C3_Scenario ==
    /\ lastOp = "llm"
    /\ Len(responses) = 2
    /\ Len(responses[1].tool_calls) = 1
    /\ responses[1].tool_calls[1].type = "function"
    /\ responses[1].tool_calls[1].name \in RegisteredTools
    /\ responses[1].tool_calls[1].arguments.valid
    /\ responses[2].role = "assistant"
    /\ responses[2].tool_calls = <<>>

C3_ToolCallThenAnswer ==
    C3_Scenario =>
        LET n == Len(hist0) IN
        /\ pc = "done"
        /\ result = responses[2].content
        /\ Len(history) = n + 4
        /\ SubSeq(history, 1, n) = hist0
        /\ history[n + 1] = UserMessage(curPrompt)
        /\ history[n + 2] = responses[1]
        /\ history[n + 3].role = "tool"
        /\ history[n + 3].tool_call_id = responses[1].tool_calls[1].id
        /\ history[n + 4] = responses[2]

C3_Witness ==
    /\ C3_Scenario
    /\ pc = "done"
    /\ result = "answer"
    /\ Len(hist0) > 1

(* C4: no tool call issued through the agent loop reads or writes a path   *)
(* that lies outside the root directory.                                   *)
C4_NoAccessOutsideRoot ==
    \A a \in fsLog : WithinRootSpec(a.path, RootDirectory, cwd)

(* C5: isWithinRoot(P, R) is true iff normalized P equals normalized R or  *)
(* starts with normalized R followed by a separator, both being resolved   *)
(* to absolute paths first.                                                *)
C5_WithinIffNormalizedPrefix ==
    withinResult # "unset" =>
        (withinResult = "true" <=> WithinRootSpec(pathArg, rootArg, cwd))

C7_AppendOnly ==
    [][lastOp' # "clearHistory" => IsPrefix(history, history')]_vars

C7_Witness ==
    /\ pc = "failed"
    /\ Len(history) = Len(hist0) + 3
    /\ history[Len(history)].role = "tool"

C9_BadJsonAlwaysInvalidJson ==
    \A p \in ReceivedCalls :
        (ReceivedCall(p).name \in RegisteredTools /\ ~ReceivedCall(p).arguments.valid) =>
            /\ p[1] = Len(responses)
            /\ pc \notin {"awaiting-llm", "done"}
            /\ ReceivedCall(p).id \notin executed
            /\ pc = "failed" =>
                   ErrorContains(error, "Invalid JSON in tool arguments: ")

(* C9 amended: such a call makes sendPrompt reject without a later gateway *)
(* call and the tool is never executed for it; the error contains          *)
(* "Invalid JSON" when that call is the one the loop failed at.            *)
C9_BadJsonFunctionCallRejected ==
    \A p \in ReceivedCalls :
        (/\ ReceivedCall(p).type = "function"
         /\ ReceivedCall(p).name \in RegisteredTools
         /\ ~ReceivedCall(p).arguments.valid) =>
            /\ p[1] = Len(responses)
            /\ pc \notin {"awaiting-llm", "done"}
            /\ ReceivedCall(p).id \notin executed
            /\ FailedAt(ReceivedCall(p)) =>
                   ErrorContains(error, "Invalid JSON in tool arguments: ")

C9_Witness ==
    /\ Len(responses) = 1
    /\ Len(responses[1].tool_calls) = 2
    /\ responses[1].tool_calls[1].id \in executed
    /\ responses[1].tool_calls[2].name \in RegisteredTools
    /\ FailedAt(responses[1].tool_calls[2])
    /\ ErrorContains(error, "Invalid JSON in tool arguments: ")

(* C10: when the gateway returns no message, sendPrompt fails and the      *)
(* history is the history before the call, the user message and one        *)
(* replacement error assistant message.                                    *)
C10_NoResponseRecorded ==
    (pc = "failed" /\ error = NoResponse) =>
        history = hist0 \o <<UserMessage(curPrompt), ErrorAssistantMessage(error)>>

-----------------------------------------------------------------------------
(* Vocabulary of the properties of the loop *)
Shape(m) ==
    IF m.role = "tool" THEN Message("tool", NullContent, <<>>, m.tool_call_id) ELSE m

ShapeOf(h) == [i \in 1..Len(h) |-> Shape(h[i])]

(* How many calls of response r the for loop has gone past. *)
ProcessedOf(r) ==
    IF r = Len(responses) /\ pc \in {"failed", "executing-tools"}
    THEN Len(responses[r].tool_calls) - Len(pending)
    ELSE Len(responses[r].tool_calls)

RECURSIVE ResultShapes(_, _, _)
ResultShapes(calls, k, n) ==
    IF k > n THEN <<>>
    ELSE (IF calls[k].type = "function"
          THEN <<Message("tool", NullContent, <<>>, calls[k].id)>> ELSE <<>>)
         \o ResultShapes(calls, k + 1, n)

RECURSIVE Transcript(_)
Transcript(r) ==
    IF r > Len(responses) THEN <<>>
    ELSE (IF responses[r].role = "assistant"
          THEN <<responses[r]>>
               \o ResultShapes(responses[r].tool_calls, 1, ProcessedOf(r))
          ELSE <<>>)
         \o Transcript(r + 1)

RetainedHistory == hist0 \o <<UserMessage(curPrompt)>> \o Transcript(1)

LastResponse(rs) == rs[Len(rs)]

HasResult(h, id) == \E j \in 1..Len(h) : h[j].role = "tool" /\ h[j].tool_call_id = id

ValidationError(name, params) ==
    CASE name = "list_directory" -> LsValidateToolParams(params)
      [] name = "read_file"      -> ReadFileValidateToolParams(params)
      [] name = "edit_file"      -> EditFileValidateToolParams(params)
      [] name = "grep"           -> GrepValidateToolParams(params)
      [] name = "glob"           -> GlobValidateToolParams(params)
      [] OTHER                   -> ReadFilesValidateToolParams(params)

-----------------------------------------------------------------------------
(* C11: when sendPrompt fails after the user message was appended, nothing *)
(* is rolled back: the history is the history before the call, the user    *)
(* message, every assistant message received and the tool results of the   *)
(* calls executed before the failure; the next sendPrompt appends its user *)
(* message after exactly that history.                                     *)
C11_FailureKeepsPartialHistory ==
    /\ []((pc = "failed" /\ error # NoActiveTrace) =>
            /\ Len(history) > Len(hist0)
            /\ SubSeq(history, 1, Len(hist0) + 1) = hist0 \o <<UserMessage(curPrompt)>>
            /\ ShapeOf(history) = ShapeOf(RetainedHistory))
    /\ [][(pc = "failed" /\ error # NoActiveTrace /\ lastOp' = "sendPrompt") =>
            history' = history \o <<UserMessage(curPrompt')>>]_vars

C11_Witness ==
    /\ lastOp = "sendPrompt"
    /\ pc = "awaiting-llm"
    /\ Len(hist0) = 4
    /\ hist0[3].role = "assistant"
    /\ Len(hist0[3].tool_calls) = 2
    /\ hist0[4].role = "tool"
    /\ hist0[4].tool_call_id = hist0[3].tool_calls[1].id

(* C12: a function call of a registered tool whose parsed arguments fail   *)
(* the tool's parameter validation fails the turn at that call, and no     *)
(* tool-result message is appended for it.                                 *)
C12_InvalidParamsFailTurn ==
    \A p \in ReceivedCalls :
        LET c == ReceivedCall(p) IN
        (/\ c.type = "function"
         /\ c.name \in RegisteredTools
         /\ c.arguments.valid
         /\ ValidationError(c.name, c.arguments.value) # NullContent
         /\ c.id \in executed
         /\ pc # "idle") =>
            /\ FailedAt(c)
            /\ ~HasResult(history, c.id)

(* C13: a tool whose execution fails does not make sendPrompt reject: a    *)
(* tool-result message with the call's id is appended and the loop goes on *)
(* to the remaining calls of the batch.                                    *)
C13_ToolFailureCaught ==
    \A p \in ReceivedCalls :
        LET c == ReceivedCall(p) IN
        (c.id \in executed /\ pc # "idle") =>
            /\ ~FailedAt(c)
            /\ HasResult(history, c.id)

(* C14: the calls of one response are executed in the order received: when *)
(* a call is executed every earlier function call of its response already  *)
(* has its result in the history, and the results of a batch are in the    *)
(* order of the calls.                                                     *)
C14_ResultsInCallOrder ==
    /\ \A p \in ReceivedCalls, q \in ReceivedCalls :
           (/\ p[1] = q[1]
            /\ p[2] < q[2]
            /\ ReceivedCall(p).type = "function"
            /\ ReceivedCall(q).id \in executed
            /\ pc # "idle") =>
               HasResult(history, ReceivedCall(p).id)
    /\ \A p \in ToolCallPositions(history), q \in ToolCallPositions(history) :
           (p[1] = q[1] /\ p[2] < q[2]) =>
               \A j \in ResultsOf(history, p[1], p[2]),
                  k \in ResultsOf(history, q[1], q[2]) : j < k

C14_Witness ==
    /\ pc = "done"
    /\ Len(responses) = 2
    /\ Len(responses[1].tool_calls) = 2
    /\ \A k \in 1..2 : /\ responses[1].tool_calls[k].id \in executed
                       /\ HasResult(history, responses[1].tool_calls[k].id)

(* C15: the loop leaves awaiting-llm for executing-tools only on a         *)
(* response with at least one tool call and for done on a response with    *)
(* none; from executing-tools it never returns: once the calls of the      *)
(* response are processed it issues the next gateway call on the augmented *)
(* history.  A final answer comes only from a response without tool calls. *)
C15_LoopTransitions ==
    [][/\ (pc = "awaiting-llm" /\ pc' = "executing-tools") =>
              /\ Len(responses') = Len(responses) + 1
              /\ Len(LastResponse(responses').tool_calls) >= 1
       /\ (/\ pc = "awaiting-llm"
           /\ Len(responses') = Len(responses) + 1
           /\ LastResponse(responses').role = "assistant"
           /\ LastResponse(responses').tool_calls = <<>>) =>
              /\ pc' = "done"
              /\ result' = LastResponse(responses').content
       /\ (pc # "done" /\ pc' = "done") =>
              /\ pc = "awaiting-llm"
              /\ Len(responses') = Len(responses) + 1
              /\ LastResponse(responses').tool_calls = <<>>
       /\ pc = "executing-tools" =>
              /\ pc' \in {"executing-tools", "awaiting-llm", "failed"}
              /\ pending' = <<>> <=> pc' = "awaiting-llm"
              /\ pc' = "awaiting-llm" =>
                     /\ gwCalls' = gwCalls + 1
                     /\ IsPrefix(history, history')]_vars

C15_Witness ==
    /\ pc = "awaiting-llm"
    /\ lastOp = "tool"
    /\ gwCalls = 2
    /\ history[Len(history)].role = "tool"

C17_DuplicateRegistrationFails ==
    [][(regOp' = "registerTool" /\ MapHas(tools, regArg')) =>
           /\ ErrorContains(regError', " is already registered.")
           /\ tools' = tools
           /\ MapGet(tools', regArg') = MapGet(tools, regArg')
           /\ listTools(tools') = listTools(tools)]_vars

C17_Witness ==
    /\ regOp = "registerTool"
    /\ ErrorContains(regError, " is already registered.")
    /\ MapHas(tools, regArg)
    /\ MapGet(tools, regArg) # regTool

(* C18: after any sequence of registry operations getTool(name) does not   *)
(* throw; it returns the tool registered under name when there is one and  *)
(* null otherwise, and agrees with hasTool(name) and with name being in    *)
(* listTools().                                                            *)
C18_GetToolTotal ==
    /\ [](/\ \A name \in QueryNames :
                LET r == registryGetTool(tools, name) IN
                /\ r.error = NoError
                /\ r.tool # Null <=> hasTool(tools, name)
                /\ hasTool(tools, name) <=> name \in listTools(tools)
                /\ hasTool(tools, name) => r.tool = MapGet(tools, name) /\ r.tool.name = name
                /\ ~hasTool(tools, name) => r.tool = Null
          /\ regOp = "getTool" =>
                /\ regError = NoError
                /\ regReturn.tool = IF hasTool(tools, regArg)
                                    THEN MapGet(tools, regArg) ELSE Null)
    /\ [][(regOp' = "registerTool" /\ regError' = NoError) =>
              registryGetTool(tools', regArg').tool = regTool']_vars

C18_Witness ==
    /\ regOp = "getTool"
    /\ regArg = "non_existent"
    /\ regReturn.tool = Null
    /\ regError = NoError
    /\ listTools(tools) = ToolNames

(* C19: once a tool is registered no registry operation removes it or      *)
(* binds its name to another tool.                                         *)
C19_RegistryAppendOnly ==
    [][\A name \in DOMAIN tools :
           /\ MapHas(tools', name)
           /\ MapGet(tools', name) = MapGet(tools, name)]_vars

(* C20: edit_file decides by the number of positions at which old_content  *)
(* occurs in the file's text, overlapping occurrences counted: none fails  *)
(* with "not found", two or more fail with "appears N times" for that      *)
(* number N, exactly one succeeds.                                         *)
C20_EditDecidesByPositions ==
    (editOutcome # "unset" /\ Len(oldContent) > 0) =>
        LET n == OccurrencesByPosition(fileText, oldContent) IN
        /\ n = 0 => editOutcome = "not found" /\ fileAfter = fileText
        /\ n >= 2 => editOutcome = "appears" /\ editCount = n /\ fileAfter = fileText
        /\ n = 1 => editOutcome = "success"

(* C21: when edit_file succeeds the file's text afterwards is prefix,      *)
(* new_content, suffix, where prefix, old_content, suffix is the text      *)
(* before; new_content is inserted as it is, whatever its characters.      *)
C21_EditInsertsLiterally ==
    editOutcome = "success" =>
        \E j \in 1..(Len(fileText) + 1) :
            /\ MatchesAt(fileText, oldContent, j)
            /\ fileAfter = SubSeq(fileText, 1, j - 1) \o newContent
                           \o SubSeq(fileText, j + Len(oldContent), Len(fileText))

(* C22: edit_file with an empty old_content on a non-empty file succeeds   *)
(* and leaves new_content followed by the original text.                   *)
C22_EmptyOldContentPrepends ==
    (/\ editOutcome # "unset"
     /\ Len(oldContent) = 0
     /\ Len(fileText) > 0
     /\ newContent \in LiteralContents) =>
        /\ editOutcome = "success"
        /\ fileAfter = newContent \o fileText

-----------------------------------------------------------------------------
(* Vocabulary of the properties of the tools *)
Min(a, b) == IF a < b THEN a ELSE b

Max(a, b) == IF a > b THEN a ELSE b

OptionalOr(arg, default) == IF arg.given THEN arg.value ELSE default

PathsOfKind(paths, readable) ==
    LET kept == SelectSeq(paths, LAMBDA e : (e.kind = "file") = readable)
    IN  [i \in 1..Len(kept) |-> kept[i].path]

ErrorPaths(errors) == [i \in 1..Len(errors) |-> errors[i].path]

(* C23: edit_file is the only mutating tool: list_directory, read_file,    *)
(* read_files, grep and glob, with any parameters, only read the           *)
(* filesystem.                                                             *)
C23_OnlyEditFileWrites ==
    (toolOutcome.kind # "unset" /\ toolName # "edit_file") =>
        \A a \in toolOutcome.access : a.op = "read"

C23_Witness ==
    /\ toolName = "read_file"
    /\ toolOutcome.kind = "result"
    /\ toolOutcome.access # {}

(* C24: on a file of n lines read_file returns the lines with 0-based      *)
(* indices offset .. min(n, offset + limit) - 1, in order, and reports     *)
(* min(limit, max(0, n - offset)) lines read, for every offset >= 0 and    *)
(* limit >= 0, each optional; it never fails because they exceed n.        *)
C24_OffsetLimitWindow ==
    readOutcome.kind # "unset" =>
        LET n      == Len(fileLines)
            offset == OptionalOr(offsetArg, 0)
            last   == IF limitArg.given THEN Min(n, offset + limitArg.value) ELSE n
        IN  /\ readOutcome.kind = "result"
            /\ readOutcome.lines = SubSeq(fileLines, offset + 1, last)
            /\ readOutcome.linesRead =
                   IF limitArg.given THEN Min(limitArg.value, Max(0, n - offset))
                   ELSE Max(0, n - offset)

(* C25: read_files on a non-empty list of paths never aborts: it returns   *)
(* one result with a file block per readable path, in input order, and an  *)
(* error entry per path that could not be read; blocks and entries add up  *)
(* to the number of paths, and the errors section is there iff a path      *)
(* failed.                                                                 *)
C25_ReadFilesNeverAborts ==
    (readResult.kind # "unset" /\ Len(readPaths) > 0) =>
        /\ readResult.kind = "result"
        /\ readResult.fileContents = PathsOfKind(readPaths, TRUE)
        /\ ErrorPaths(readResult.errors) = PathsOfKind(readPaths, FALSE)
        /\ Len(readResult.fileContents) + Len(readResult.errors) = Len(readPaths)
        /\ readResult.errorsSection <=> \E i \in 1..Len(readPaths) : readPaths[i].kind # "file"

C25_Witness ==
    /\ readResult.kind = "result"
    /\ Len(readPaths) = 3
    /\ readPaths[1].kind = "missing"
    /\ readPaths[2].kind = "file"
    /\ readPaths[3].kind = "directory"
    /\ Len(readResult.fileContents) = 1
    /\ Len(readResult.errors) = 2

(* C26: for every tool and every parameter object that validateToolParams  *)
(* rejects, execute rejects with an "Invalid parameters" error and makes   *)
(* no filesystem access.                                                   *)
C26_ExecuteFailsFastOnInvalidParams ==
    (toolOutcome.kind # "unset" /\ ValidationError(toolName, toolParams) # NullContent) =>
        /\ toolOutcome.kind = "throw"
        /\ ErrorContains(toolOutcome.error, "Invalid parameters for ")
        /\ toolOutcome.access = {}

(* C27: at most one chat.sendPrompt call of the App's one Chat is pending *)
(* at any time, whatever the order of Enter, ESC, Enter on the welcome     *)
(* screen, and the settling of pending sendPrompt promises.                *)
C27_AtMostOneSendPromptInFlight == Len(inFlight) <= 1

(* C28: the Chat instances never share a history array, and a step of      *)
(* sendPrompt, clearHistory, endSession or getHistory of one instance      *)
(* leaves the history of every other instance as it was.                   *)
C28_DisjointHistories ==
    /\ [](\A c, d \in Chats : c # d => historyRef[c] # historyRef[d])
    /\ [][\A c, d \in Chats :
            (c # d /\ heapOp'.chat = d) => HistoryOf(c)' = HistoryOf(c)]_vars

C28_Witness ==
    /\ heapOp.chat = "a"
    /\ chatPc["a"] = "tool"
    /\ HistoryOf("a") = <<"system", "user", "assistant">>
    /\ HistoryOf("b") = <<"system", "user">>

(* C29: getHistory returns an array no Chat refers to; a caller adding,    *)
(* removing or reordering its elements leaves every Chat's history as it   *)
(* was, and no step of a Chat changes an array that was returned earlier.  *)
C29_GetHistoryReturnsCopy ==
    /\ [](\A c \in Chats : historyRef[c] \notin Range(returned))
    /\ [][/\ heapOp'.op = "caller" =>
               \A c \in Chats : HistoryOf(c)' = HistoryOf(c)
           /\ heapOp'.op = "chat" =>
               \A i \in 1..Len(returned) : heap'[returned'[i]] = heap[returned[i]]]_vars

C29_Witness ==
    /\ heapOp.chat = "a"
    /\ chatPc["a"] = "idle"
    /\ \E i \in 1..Len(returned) : heap[returned[i]] = <<"user", CallerElement>>
    /\ HistoryOf("a") = <<"system">>

(* C30: grep never runs with an empty pattern: validation rejects a        *)
(* missing pattern, an empty pattern and a pattern that is no regular      *)
(* expression, so execute searches nothing and reports nothing for them.   *)
C30_GrepRejectsEmptyPattern ==
    (/\ toolOutcome.kind # "unset"
     /\ toolName = "grep"
     /\ toolParams.schemaOk
     /\ toolParams.pattern \in {"missing", "empty", "invalid"}) =>
        /\ GrepValidateToolParams(toolParams) # NullContent
        /\ toolOutcome.kind = "throw"
        /\ toolOutcome.access = {}

(* C38: once endSession has run, every sendPrompt rejects with "No active  *)
(* trace found" and leaves the history as it was, and only clearHistory    *)
(* ends that; clearHistory starts a session with another session id and an *)
(* active trace, and a sendPrompt with an active trace is accepted: it     *)
(* appends the user message and calls the gateway.                         *)
C38_SessionLifecycle ==
    [][/\ lastOp' = "endSession" => ~currentTrace'
       /\ (lastOp' = "sendPrompt" /\ ~currentTrace) =>
              /\ pc' = "failed"
              /\ error' = NoActiveTrace
              /\ history' = history
              /\ ~currentTrace'
       /\ (~currentTrace /\ currentTrace') => lastOp' = "clearHistory"
       /\ lastOp' = "clearHistory" => (currentTrace' /\ sessionId' # sessionId)
       /\ (lastOp' = "sendPrompt" /\ currentTrace) =>
              /\ pc' = "awaiting-llm"
              /\ history' = Append(history, UserMessage(curPrompt'))]_vars

C38_Witness ==
    /\ lastOp = "sendPrompt"
    /\ pc = "failed"
    /\ error = NoActiveTrace
    /\ ~currentTrace
    /\ sessionId = 2
    /\ Len(history) > 1

(* C36: however edit_file fails (parameters rejected, no such path, not a  *)
(* regular file, old_content not found, old_content found more than once), *)
(* the file's text afterwards is the text it had before the call.          *)
C36_FailedEditLeavesFile ==
    (editOutcome \notin {"unset", "success"}) => fileAfter = fileText

C36_Witness ==
    /\ editOutcome = "appears"
    /\ editTarget = "file"
    /\ fileText = <<"a", "b", "a", "b">>
    /\ oldContent = <<"a">>
    /\ newContent = <<"b">>
    /\ fileAfter = fileText

(* C35: getBaseToolRegistry never throws the duplicate-name error and the  *)
(* registry it returns lists every base tool exactly once.                 *)
C35_BaseRegistryBuilds ==
    regOp = "getBaseToolRegistry" =>
        /\ regError = NoError
        /\ listTools(tools) = {BaseTools(regArg)[i].name : i \in 1..Len(BaseTools(regArg))}
        /\ Cardinality(listTools(tools)) = Len(BaseTools(regArg))

CountOf(seq, x) == Cardinality({i \in 1..Len(seq) : seq[i] = x})

SameInstance == appState = "chat" /\ appState' = "chat" /\ mount' = mount

(* C37: a mounted ChatInterface starts a sendPrompt only in state idle     *)
(* with an input that is not blank, and is thinking exactly while that     *)
(* sendPrompt is pending; its state changes only idle -> thinking on the   *)
(* submit, thinking -> idle when the promise resolves, thinking -> error   *)
(* when it rejects, error -> idle when the timer fires; and from error it  *)
(* is idle again eventually.                                               *)
C37_ChatInterfaceStates ==
    /\ [](appState = "chat" =>
             (/\ ((chatState = "thinking") <=> (CountOf(inFlight, mount) = 1))
              /\ CountOf(inFlight, mount) <= 1
              /\ ((chatState = "error") <=> (mount \in timers))))
    /\ [][/\ (Len(inFlight') > Len(inFlight)) =>
              /\ SameInstance
              /\ chatState = "idle"
              /\ \E i \in 1..Len(currentInput) : currentInput[i] # " "
              /\ chatState' = "thinking"
          /\ (SameInstance /\ chatState' # chatState) =>
              \/ chatState = "idle" /\ chatState' = "thinking" /\ uiOp' = "submit"
              \/ chatState = "thinking" /\ chatState' = "idle" /\ uiOp' = "resolved"
              \/ chatState = "thinking" /\ chatState' = "error" /\ uiOp' = "rejected"
              \/ chatState = "error" /\ chatState' = "idle" /\ uiOp' = "timeout"
          /\ (SameInstance /\ CountOf(inFlight', mount) < CountOf(inFlight, mount)) =>
              \/ chatState' = "idle" /\ uiOp' = "resolved"
              \/ chatState' = "error" /\ uiOp' = "rejected"]_vars
    /\ (appState = "chat" /\ chatState = "error") ~> (chatState = "idle")

C37_Witness ==
    /\ appState = "chat"
    /\ chatState = "idle"
    /\ uiOp = "timeout"
    /\ mount = 1
    /\ inFlight = <<>>
    /\ timers = {}

\* the matching lines of the readable candidates, file by file
MatchingLines(files) ==
    UNION {{GrepMatch(files[i].name, n) :
               n \in {k \in 1..Len(files[i].lines) : files[i].lines[k]}} :
           i \in {k \in 1..Len(files) : files[k].readable}}

(* C31: grep does not fail when candidate files cannot be read: it returns *)
(* a result that lists, with its 1-based line number, every matching line  *)
(* of every readable candidate and nothing else, and the match count it    *)
(* reports is the number of lines listed.                                  *)
C31_GrepSkipsUnreadableFiles ==
    grepOutcome.kind # "unset" =>
        /\ grepOutcome.kind = "result"
        /\ Range(grepOutcome.listed) = MatchingLines(grepFiles)
        /\ grepOutcome.count = Len(grepOutcome.listed)
        /\ Cardinality(Range(grepOutcome.listed)) = Len(grepOutcome.listed)
(* C32: a recursive glob search tolerates unreadable entries: the search   *)
(* returns, and it reports every matching entry of the readable,           *)
(* non-ignored directories.                                                *)
ExpectedMatches(tree) ==
    {<<i>> : i \in {k \in 1..Len(tree) : tree[k].kind \in {"file", "dir"} /\ tree[k].match}}
    \cup UNION {{<<i, j>> : j \in {k \in 1..Len(tree[i].entries) :
                                     /\ tree[i].entries[k].kind = "file"
                                     /\ tree[i].entries[k].match}} :
                i \in {k \in 1..Len(tree) : tree[k].kind = "dir" /\ tree[k].readable}}

C32_GlobToleratesUnreadableEntries ==
    globOutcome.kind # "unset" =>
        /\ globOutcome.kind = "return"
        /\ globOutcome.matches = ExpectedMatches(globTree)

(* C33: for a pattern **/p, p one path segment of literals, "*" and "?",   *)
(* a file is reported exactly when its bare name matches p, at every       *)
(* depth, the search root included.                                        *)
RECURSIVE GlobMatch(_, _)
GlobMatch(p, name) ==
    IF p = <<>> THEN name = <<>>
    ELSE IF Head(p) = "*"
         THEN GlobMatch(Tail(p), name) \/ (name # <<>> /\ GlobMatch(p, Tail(name)))
    ELSE /\ name # <<>>
         /\ Head(p) = "?" \/ Head(p) = Head(name)
         /\ GlobMatch(Tail(p), Tail(name))

SegmentOf(pattern) == SubSeq(pattern, 4, Len(pattern))

IsDoubleStarSlash(pattern) ==
    /\ Len(pattern) >= 4
    /\ SubSeq(pattern, 1, 3) = <<"*", "*", "/">>
    /\ Depth(SegmentOf(pattern)) = 0
    /\ ~isRecursive(SegmentOf(pattern))

C33_DoubleStarMatchesEveryDepth ==
    (globMatched # "unset" /\ IsDoubleStarSlash(globPattern)) =>
        (globMatched = "true" <=> GlobMatch(SegmentOf(globPattern), basename(globRel)))

(* C34: when two overlapping sendPrompt invocations on one Chat have both  *)
(* settled, every message either of them appended is in the history        *)
(* exactly once, and the messages of each invocation are in the order in   *)
(* which it appended them.                                                 *)
PositionsOf(i, n) ==
    {p \in 1..Len(sharedHistory) : sharedHistory[p].by = i /\ sharedHistory[p].n = n}

BothSettled == \A i \in Invocations : invPc[i] \in {"done", "failed"}

C34_NoAppendLost ==
    BothSettled =>
        \A i \in Invocations :
            /\ \A n \in 1..invAppended[i] : Cardinality(PositionsOf(i, n)) = 1
            /\ \A n \in 1..(invAppended[i] - 1) :
                   \A p \in PositionsOf(i, n), q \in PositionsOf(i, n + 1) : p < q

C34_Witness ==
    /\ BothSettled
    /\ \A i \in Invocations : invAppended[i] >= 3
    /\ \E p, q, r \in 1..Len(sharedHistory) :
           /\ p < q /\ q < r
           /\ sharedHistory[p].by = 1
           /\ sharedHistory[q].by = 2
           /\ sharedHistory[r].by = 1

=============================================================================
